---- MODULE Spec2Model ----
(***************************************************************************)
(* Family-tree application: the relationship reconciler (the POST and      *)
(* DELETE handlers of the relationships route over the Prisma              *)
(* Relationship table) and the tree layout of FamilyTreeView.              *)
(***************************************************************************)
EXTENDS Integers, Sequences, FiniteSets, TLC

(***************************************************************************)
(* Bounds                                                                  *)
(***************************************************************************)
\* number of relationship row ids the store may hand out in one behaviour
MaxIds == 4

\* number of handler invocations the concurrent clients may make in all
MaxCalls == 3

\* number of persons the persons query returns
MaxPersons == 4

\* the deepest ancestor / descendant generation a filter setting asks for
MaxGenerations == 3

\* the nested calls the call stack holds before a RangeError is thrown
CallStackDepth == 8

\* the requests made to the persons routes, over all clients
MaxPersonCalls == 2

\* the persons of a family large enough for two branches to meet
MaxForest == 7

(***************************************************************************)
(* Relationship types and the route's reverse tables                       *)
(***************************************************************************)
Null == "null"

RelationshipType ==
  { "SIBLING", "HALF_SIBLING", "STEP_SIBLING", "GRANDPARENT", "GRANDCHILD",
    "AUNT_UNCLE", "NIECE_NEPHEW", "FIRST_COUSIN", "SECOND_COUSIN",
    "PARENT_IN_LAW", "CHILD_IN_LAW", "SIBLING_IN_LAW", "STEP_PARENT",
    "STEP_CHILD", "GODPARENT", "GODCHILD", "ADOPTIVE_PARENT",
    "ADOPTIVE_CHILD", "GUARDIAN", "WARD", "CLOSE_FRIEND", "FAMILY_FRIEND" }

MUTUAL_RELATIONSHIPS ==
  [ SIBLING |-> "SIBLING", HALF_SIBLING |-> "HALF_SIBLING",
    STEP_SIBLING |-> "STEP_SIBLING", FIRST_COUSIN |-> "FIRST_COUSIN",
    SECOND_COUSIN |-> "SECOND_COUSIN", SIBLING_IN_LAW |-> "SIBLING_IN_LAW",
    CLOSE_FRIEND |-> "CLOSE_FRIEND", FAMILY_FRIEND |-> "FAMILY_FRIEND" ]

REVERSE_RELATIONSHIPS ==
  [ GRANDPARENT |-> "GRANDCHILD", GRANDCHILD |-> "GRANDPARENT",
    AUNT_UNCLE |-> "NIECE_NEPHEW", NIECE_NEPHEW |-> "AUNT_UNCLE",
    PARENT_IN_LAW |-> "CHILD_IN_LAW", CHILD_IN_LAW |-> "PARENT_IN_LAW",
    STEP_PARENT |-> "STEP_CHILD", STEP_CHILD |-> "STEP_PARENT",
    GODPARENT |-> "GODCHILD", GODCHILD |-> "GODPARENT",
    ADOPTIVE_PARENT |-> "ADOPTIVE_CHILD", ADOPTIVE_CHILD |-> "ADOPTIVE_PARENT",
    GUARDIAN |-> "WARD", WARD |-> "GUARDIAN" ]

\* RELATIONSHIP_DEFINITIONS, reduced to the two fields the reverse lookup reads
RelationshipInfo(isMutual, rev) == [ isMutual |-> isMutual, reverseType |-> rev ]

RELATIONSHIP_DEFINITIONS ==
  [ SIBLING         |-> RelationshipInfo(TRUE, Null),
    HALF_SIBLING    |-> RelationshipInfo(TRUE, Null),
    STEP_SIBLING    |-> RelationshipInfo(TRUE, Null),
    GRANDPARENT     |-> RelationshipInfo(FALSE, "GRANDCHILD"),
    GRANDCHILD      |-> RelationshipInfo(FALSE, "GRANDPARENT"),
    AUNT_UNCLE      |-> RelationshipInfo(FALSE, "NIECE_NEPHEW"),
    NIECE_NEPHEW    |-> RelationshipInfo(FALSE, "AUNT_UNCLE"),
    FIRST_COUSIN    |-> RelationshipInfo(TRUE, Null),
    SECOND_COUSIN   |-> RelationshipInfo(TRUE, Null),
    PARENT_IN_LAW   |-> RelationshipInfo(FALSE, "CHILD_IN_LAW"),
    CHILD_IN_LAW    |-> RelationshipInfo(FALSE, "PARENT_IN_LAW"),
    SIBLING_IN_LAW  |-> RelationshipInfo(TRUE, Null),
    STEP_PARENT     |-> RelationshipInfo(FALSE, "STEP_CHILD"),
    STEP_CHILD      |-> RelationshipInfo(FALSE, "STEP_PARENT"),
    GODPARENT       |-> RelationshipInfo(FALSE, "GODCHILD"),
    GODCHILD        |-> RelationshipInfo(FALSE, "GODPARENT"),
    ADOPTIVE_PARENT |-> RelationshipInfo(FALSE, "ADOPTIVE_CHILD"),
    ADOPTIVE_CHILD  |-> RelationshipInfo(FALSE, "ADOPTIVE_PARENT"),
    GUARDIAN        |-> RelationshipInfo(FALSE, "WARD"),
    WARD            |-> RelationshipInfo(FALSE, "GUARDIAN"),
    CLOSE_FRIEND    |-> RelationshipInfo(TRUE, Null),
    FAMILY_FRIEND   |-> RelationshipInfo(TRUE, Null) ]

\* a mutant of the lookup: isMutual is not consulted
getReverseRelationshipTypeNoMutual(type) ==
  RELATIONSHIP_DEFINITIONS[type].reverseType

\* info.reverseType || (info.isMutual ? type : undefined)
getReverseRelationshipType(type) ==
  LET info == RELATIONSHIP_DEFINITIONS[type]
  IN  IF info.reverseType # Null THEN info.reverseType
      ELSE IF info.isMutual THEN type
      ELSE Null

isMutualRelationship(type) == RELATIONSHIP_DEFINITIONS[type].isMutual

\* a mutant of the lookup: the mutual table is never consulted
reverseTypeNoMutual(type) ==
  IF type \in DOMAIN REVERSE_RELATIONSHIPS THEN REVERSE_RELATIONSHIPS[type]
  ELSE Null

\* REVERSE_RELATIONSHIPS[type] || MUTUAL_RELATIONSHIPS[type]
reverseType(type) ==
  IF type \in DOMAIN REVERSE_RELATIONSHIPS THEN REVERSE_RELATIONSHIPS[type]
  ELSE IF type \in DOMAIN MUTUAL_RELATIONSHIPS THEN MUTUAL_RELATIONSHIPS[type]
  ELSE Null

(***************************************************************************)
(* The store: the Relationship table with its unique index and its         *)
(* foreign keys to Person                                                  *)
(***************************************************************************)
\* the Person rows the relationship foreign keys can refer to
StoredPersons == { "A", "B" }

\* person ids a request may carry: the stored ones and one that is not stored
RequestPersonIds == StoredPersons \cup { "G" }

\* the request may carry no id (0) or any id the store can have handed out
NoId == 0

Row(id, type, from, to) ==
  [ id |-> id, type |-> type, personFromId |-> from, personToId |-> to ]

\* what findFirst and findUnique return when no row matches
NoRow == Row(NoId, Null, Null, Null)

Matching(tbl, from, to, type) ==
  { r \in tbl : r.personFromId = from /\ r.personToId = to /\ r.type = type }

\* a mutant of findFirst: the two person ids of the filter are swapped
findFirstSwapped(tbl, from, to, type) ==
  IF Matching(tbl, to, from, type) = {} THEN NoRow
  ELSE CHOOSE r \in Matching(tbl, to, from, type) : TRUE

\* prisma.relationship.findFirst({ where: { personFromId, personToId, type } })
findFirst(tbl, from, to, type) ==
  IF Matching(tbl, from, to, type) = {} THEN NoRow
  ELSE CHOOSE r \in Matching(tbl, from, to, type) : TRUE

\* prisma.relationship.findUnique({ where: { id } })
findUnique(tbl, id) ==
  IF { r \in tbl : r.id = id } = {} THEN NoRow
  ELSE CHOOSE r \in tbl : r.id = id

\* the outcome of a store write: the table after it and the error it threw
Written(tbl) == [ ok |-> TRUE, error |-> "none", table |-> tbl ]

Thrown(tbl, code) == [ ok |-> FALSE, error |-> code, table |-> tbl ]

\* a mutant of the store: the unique index on the triple is missing
createNoUnique(tbl, id, type, from, to) ==
  IF from \notin StoredPersons \/ to \notin StoredPersons
    THEN Thrown(tbl, "P2003")
  ELSE Written(tbl \cup { Row(id, type, from, to) })

\* prisma.relationship.create: rejected by a foreign key (P2003) or by the
\* unique index on (personFromId, personToId, type) (P2002)
create(tbl, id, type, from, to) ==
  IF from \notin StoredPersons \/ to \notin StoredPersons
    THEN Thrown(tbl, "P2003")
  ELSE IF Matching(tbl, from, to, type) # {}
    THEN Thrown(tbl, "P2002")
  ELSE Written(tbl \cup { Row(id, type, from, to) })

\* prisma.relationship.delete({ where: { id } }): throws when no row has the id
delete(tbl, id) ==
  IF { r \in tbl : r.id = id } = {} THEN Thrown(tbl, "P2025")
  ELSE Written({ r \in tbl : r.id # id })

\* a mutant of deleteMany: the type is not part of the filter
deleteManyAnyType(tbl, from, to, type) ==
  { r \in tbl : ~(r.personFromId = from /\ r.personToId = to) }

\* prisma.relationship.deleteMany({ where: { personFromId, personToId, type } })
deleteMany(tbl, from, to, type) ==
  tbl \ Matching(tbl, from, to, type)

(***************************************************************************)
(* State                                                                   *)
(***************************************************************************)
VARIABLES
  table,    \* the rows of the Relationship table
  nextId,   \* the next fresh row id (ids are never reused)
  last,     \* the last request handled to completion and its response status
  calls,    \* per concurrent client: the handler invocation in flight
  persons,          \* FamilyTreeView: the persons the query returned
  filteredPersons,  \* FamilyTreeView: the filter's result
  focusPersonId,    \* FamilyTreeView: the focus person (0: none)
  isFiltered,       \* FamilyTreeView: whether a filter is in effect
  treeData,         \* FamilyTreeView: the memoised layout
  familyFilter,     \* FamilyFilter: its focus setting and filtered persons
  filterSettings,   \* FamilyFilter: the filter settings
  filteredResults,  \* FamilyFilter: the memoised result of the settings
  personTable,      \* the stored Person rows
  nextPersonId      \* the id the next created Person gets

relVars == << table, nextId, last, calls >>

personVars == << personTable, nextPersonId >>

\* the tree view, its filter and the Person rows: what the relationships
\* route leaves alone
treeVars ==
  << persons, filteredPersons, focusPersonId, isFiltered, treeData, familyFilter,
     filterSettings, filteredResults, personVars >>

vars == << table, nextId, last, calls,
           persons, filteredPersons, focusPersonId, isFiltered, treeData,
           familyFilter, filterSettings, filteredResults,
           personTable, nextPersonId >>

\* useState<FilterSettings>({ focusPersonId: selectedPersonId || null, ... })
DefaultSettings ==
  [ focusPersonId |-> 0, includeSpouses |-> TRUE, generationsUp |-> 3,
    generationsDown |-> 3, includeSiblings |-> TRUE, includeExtendedFamily |-> FALSE ]

\* the unfiltered result: all the persons, no family members, empty statistics
Unfiltered(allPersons) ==
  [ persons |-> allPersons, familyMembers |-> << >>, attempts |-> << >>,
    stats |-> [ total |-> Len(allPersons), byRelation |-> << >>,
                spousesIncluded |-> 0 ] ]

\* the filter as mounted: default settings, everybody in the result
NoFilter(allPersons) ==
  /\ filterSettings = DefaultSettings
  /\ filteredResults = Unfiltered(allPersons)

\* the Person rows are the list the persons query returns
Stored(list) ==
  /\ personTable = { list[i] : i \in 1 .. Len(list) }
  /\ nextPersonId = Len(list) + 1

\* the tree view before any persons are loaded
NoTree ==
  /\ Stored(<< >>)
  /\ NoFilter(<< >>)
  /\ persons = << >>
  /\ filteredPersons = << >>
  /\ focusPersonId = 0
  /\ isFiltered = FALSE
  /\ treeData = [ roots |-> << >>,
                  stats |-> [ totalNodes |-> 0, maxDepth |-> 0, generations |-> 0 ] ]
  /\ familyFilter = [ focusPersonId |-> 0, persons |-> << >> ]

(***************************************************************************)
(* Requests                                                                *)
(***************************************************************************)
\* a type string the schema's enum rejects
InvalidType == "PARENT"

Bodies ==
  [ type : RelationshipType \cup { InvalidType },
    personFromId : RequestPersonIds,
    personToId : RequestPersonIds ]

NoBody == [ type |-> Null, personFromId |-> Null, personToId |-> Null ]

\* ids a DELETE request may name: none (0), any id handed out so far, or an unused one
DeleteIds == 0 .. (MaxIds + 2)

\* a mutant of the schema: the refine on the two ids is missing
RelationshipSchemaNoRefine(body) ==
  body.type \in RelationshipType

\* RelationshipSchema.parse(body): the enum and the refine on the two ids
RelationshipSchema(body) ==
  /\ body.type \in RelationshipType
  /\ body.personFromId # body.personToId

Response(tbl, nid, status) ==
  [ table |-> tbl, nextId |-> nid, status |-> status ]

(***************************************************************************)
(* POST /api/relationships, run to completion                              *)
(***************************************************************************)
PostHandler(tbl, nid, body) ==
  IF ~RelationshipSchema(body) THEN Response(tbl, nid, 400)
  ELSE IF findFirst(tbl, body.personFromId, body.personToId, body.type) # NoRow
    THEN Response(tbl, nid, 409)
  ELSE
    LET c1 == create(tbl, nid, body.type, body.personFromId, body.personToId)
        rt == reverseType(body.type)
    IN  IF ~c1.ok THEN Response(tbl, nid, 500)
        ELSE IF rt = Null THEN Response(c1.table, nid + 1, 201)
        ELSE IF findFirst(c1.table, body.personToId, body.personFromId, rt) # NoRow
          THEN Response(c1.table, nid + 1, 201)
        ELSE
          LET c2 == create(c1.table, nid + 1, rt, body.personToId, body.personFromId)
          IN  IF ~c2.ok THEN Response(c1.table, nid + 1, 500)
              ELSE Response(c2.table, nid + 2, 201)

POST(body) ==
  /\ nextId + 1 <= MaxIds
  /\ LET res == PostHandler(table, nextId, body)
     IN  /\ table' = res.table
         /\ nextId' = res.nextId
         /\ last' = [ op |-> "POST", body |-> body, id |-> NoId,
                      status |-> res.status ]
  /\ UNCHANGED << calls, treeVars >>

(***************************************************************************)
(* DELETE /api/relationships?id=..., run to completion                     *)
(***************************************************************************)
\* a mutant of the handler: the reverse record is not deleted
DeleteHandlerKeepsReverse(tbl, nid, id) ==
  IF id = NoId THEN Response(tbl, nid, 400)
  ELSE
    LET relationship == findUnique(tbl, id)
    IN  IF relationship = NoRow THEN Response(tbl, nid, 404)
        ELSE
          LET d1 == delete(tbl, id)
          IN  IF ~d1.ok THEN Response(tbl, nid, 500)
              ELSE Response(d1.table, nid, 200)

\* a mutant of the handler: the result of findUnique is not checked
DeleteHandlerNoCheck(tbl, nid, id) ==
  IF id = NoId THEN Response(tbl, nid, 400)
  ELSE
    LET relationship == findUnique(tbl, id)
        d1 == delete(tbl, id)
        rt == reverseType(relationship.type)
    IN  IF ~d1.ok THEN Response(tbl, nid, 500)
        ELSE IF rt = Null THEN Response(d1.table, nid, 200)
        ELSE Response(deleteMany(d1.table, relationship.personToId,
                                 relationship.personFromId, rt), nid, 200)

DeleteHandler(tbl, nid, id) ==
  IF id = NoId THEN Response(tbl, nid, 400)
  ELSE
    LET relationship == findUnique(tbl, id)
    IN  IF relationship = NoRow THEN Response(tbl, nid, 404)
        ELSE
          LET d1 == delete(tbl, id)
              rt == reverseType(relationship.type)
          IN  IF ~d1.ok THEN Response(tbl, nid, 500)
              ELSE IF rt = Null THEN Response(d1.table, nid, 200)
              ELSE Response(deleteMany(d1.table, relationship.personToId,
                                       relationship.personFromId, rt), nid, 200)

DELETE(id) ==
  /\ LET res == DeleteHandler(table, nextId, id)
     IN  /\ table' = res.table
         /\ nextId' = res.nextId
         /\ last' = [ op |-> "DELETE", body |-> NoBody, id |-> id,
                      status |-> res.status ]
  /\ UNCHANGED << calls, treeVars >>

(***************************************************************************)
(* Sequential specification: handlers run one at a time from an empty      *)
(* table                                                                   *)
(***************************************************************************)
NoCall == [ pc |-> "idle" ]

NoRequest == [ op |-> "none", body |-> NoBody, id |-> NoId, status |-> 0 ]

Init ==
  /\ table = {}
  /\ nextId = 1
  /\ last = NoRequest
  /\ calls = [ p \in {} |-> NoCall ]
  /\ NoTree

Next ==
  \/ \E body \in Bodies : POST(body)
  \/ \E id \in DeleteIds : DELETE(id)

Spec == Init /\ [][Next]_vars

(***************************************************************************)
(* Sequential specification from a table holding one row without its       *)
(* reverse: the state a POST leaves when a concurrent DELETE of its        *)
(* primary row runs between its two writes (ids 1 and 2 were handed out,   *)
(* one of the two rows is gone)                                            *)
(***************************************************************************)
LoneRows ==
  { Row(1, t, f, o) : t \in RelationshipType,
                      f \in StoredPersons, o \in StoredPersons }

InitLone ==
  /\ table \in { { r } : r \in { x \in LoneRows : x.personFromId # x.personToId } }
  /\ nextId = 3
  /\ last = NoRequest
  /\ calls = [ p \in {} |-> NoCall ]
  /\ NoTree

SpecLone == InitLone /\ [][Next]_vars

(***************************************************************************)
(* Concurrent specification: two clients invoke the handlers; every await  *)
(* on a store call is a point where the other client's calls interleave    *)
(***************************************************************************)
Procs == { "c1", "c2" }

\* the relationship types the concurrent clients send: a mutual type and an
\* asymmetric pair
ConcTypes == { "SIBLING", "GRANDPARENT", "GRANDCHILD" }

ConcBodies ==
  [ type : ConcTypes, personFromId : StoredPersons, personToId : StoredPersons ]

ConcDeleteIds == 0 .. 3

Call(pc, op, body, id, relationship, status, error, made) ==
  [ pc |-> pc, op |-> op, body |-> body, id |-> id,
    relationship |-> relationship, status |-> status, error |-> error,
    made |-> made ]

IdleCall == Call("idle", "none", NoBody, NoId, NoRow, 0, "none", 0)

\* the handler returns: NextResponse.json(..., { status })
Return(c, status, error) ==
  [ c EXCEPT !.pc = "done", !.status = status, !.error = error ]

\* the number of invocations made so far, over all clients
RECURSIVE Made(_, _)
Made(cs, ps) ==
  IF ps = {} THEN 0
  ELSE LET p == CHOOSE q \in ps : TRUE
       IN  cs[p].made + Made(cs, ps \ { p })

CanBegin(p) ==
  /\ calls[p].pc \in { "idle", "done" }
  /\ Made(calls, Procs) < MaxCalls

\* POST: request.json() and RelationshipSchema.parse(body)
PostBegin(p, body) ==
  /\ CanBegin(p)
  /\ LET c == Call("post_findFirst", "POST", body, NoId, NoRow, 0, "none",
                   calls[p].made + 1)
     IN  calls' = [ calls EXCEPT ![p] =
                      IF RelationshipSchema(body) THEN c
                      ELSE Return(c, 400, "ZodError") ]
  /\ UNCHANGED << table, nextId, last, treeVars >>

\* POST: await prisma.relationship.findFirst (the existing relationship)
PostFindFirst(p) ==
  /\ calls[p].pc = "post_findFirst"
  /\ LET c == calls[p]
         existingRelationship ==
           findFirst(table, c.body.personFromId, c.body.personToId, c.body.type)
     IN  calls' = [ calls EXCEPT ![p] =
                      IF existingRelationship # NoRow THEN Return(c, 409, "none")
                      ELSE [ c EXCEPT !.pc = "post_create" ] ]
  /\ UNCHANGED << table, nextId, last, treeVars >>

\* POST: await prisma.relationship.create (the primary relationship)
PostCreate(p) ==
  /\ calls[p].pc = "post_create"
  /\ LET c == calls[p]
         c1 == create(table, nextId, c.body.type, c.body.personFromId,
                      c.body.personToId)
     IN  /\ table' = c1.table
         /\ nextId' = IF c1.ok THEN nextId + 1 ELSE nextId
         /\ calls' = [ calls EXCEPT ![p] =
                         IF ~c1.ok THEN Return(c, 500, c1.error)
                         ELSE IF reverseType(c.body.type) = Null
                           THEN Return(c, 201, "none")
                         ELSE [ c EXCEPT !.pc = "post_findReverse" ] ]
  /\ UNCHANGED << last, treeVars >>

\* POST: await prisma.relationship.findFirst (the existing reverse)
PostFindReverse(p) ==
  /\ calls[p].pc = "post_findReverse"
  /\ LET c == calls[p]
         existingReverse ==
           findFirst(table, c.body.personToId, c.body.personFromId,
                     reverseType(c.body.type))
     IN  calls' = [ calls EXCEPT ![p] =
                      IF existingReverse # NoRow THEN Return(c, 201, "none")
                      ELSE [ c EXCEPT !.pc = "post_createReverse" ] ]
  /\ UNCHANGED << table, nextId, last, treeVars >>

\* POST: await prisma.relationship.create (the reverse relationship)
PostCreateReverse(p) ==
  /\ calls[p].pc = "post_createReverse"
  /\ LET c == calls[p]
         c2 == create(table, nextId, reverseType(c.body.type),
                      c.body.personToId, c.body.personFromId)
     IN  /\ table' = c2.table
         /\ nextId' = IF c2.ok THEN nextId + 1 ELSE nextId
         /\ calls' = [ calls EXCEPT ![p] =
                         IF ~c2.ok THEN Return(c, 500, c2.error)
                         ELSE Return(c, 201, "none") ]
  /\ UNCHANGED << last, treeVars >>

\* DELETE: searchParams.get('id') and the check that it is present
DeleteBegin(p, id) ==
  /\ CanBegin(p)
  /\ LET c == Call("delete_findUnique", "DELETE", NoBody, id, NoRow, 0, "none",
                   calls[p].made + 1)
     IN  calls' = [ calls EXCEPT ![p] =
                      IF id = NoId THEN Return(c, 400, "none") ELSE c ]
  /\ UNCHANGED << table, nextId, last, treeVars >>

\* DELETE: await prisma.relationship.findUnique
DeleteFindUnique(p) ==
  /\ calls[p].pc = "delete_findUnique"
  /\ LET c == calls[p]
         relationship == findUnique(table, c.id)
     IN  calls' = [ calls EXCEPT ![p] =
                      IF relationship = NoRow THEN Return(c, 404, "none")
                      ELSE [ c EXCEPT !.pc = "delete_delete",
                                      !.relationship = relationship ] ]
  /\ UNCHANGED << table, nextId, last, treeVars >>

\* DELETE: await prisma.relationship.delete (the primary relationship)
DeleteDelete(p) ==
  /\ calls[p].pc = "delete_delete"
  /\ LET c == calls[p]
         d1 == delete(table, c.id)
     IN  /\ table' = d1.table
         /\ calls' = [ calls EXCEPT ![p] =
                         IF ~d1.ok THEN Return(c, 500, d1.error)
                         ELSE IF reverseType(c.relationship.type) = Null
                           THEN Return(c, 200, "none")
                         ELSE [ c EXCEPT !.pc = "delete_deleteMany" ] ]
  /\ UNCHANGED << nextId, last, treeVars >>

\* DELETE: await prisma.relationship.deleteMany (the reverse relationship)
DeleteDeleteMany(p) ==
  /\ calls[p].pc = "delete_deleteMany"
  /\ LET c == calls[p]
     IN  /\ table' = deleteMany(table, c.relationship.personToId,
                                c.relationship.personFromId,
                                reverseType(c.relationship.type))
         /\ calls' = [ calls EXCEPT ![p] = Return(c, 200, "none") ]
  /\ UNCHANGED << nextId, last, treeVars >>

InitConc ==
  /\ table = {}
  /\ nextId = 1
  /\ last = NoRequest
  /\ calls = [ p \in Procs |-> IdleCall ]
  /\ NoTree

NextConc ==
  \E p \in Procs :
    \/ \E body \in ConcBodies : PostBegin(p, body)
    \/ PostFindFirst(p)
    \/ PostCreate(p)
    \/ PostFindReverse(p)
    \/ PostCreateReverse(p)
    \/ \E id \in ConcDeleteIds : DeleteBegin(p, id)
    \/ DeleteFindUnique(p)
    \/ DeleteDelete(p)
    \/ DeleteDeleteMany(p)

SpecConc == InitConc /\ [][NextConc]_vars

(***************************************************************************)
(* FamilyTreeView: the tree layout                                         *)
(***************************************************************************)
\* a null fatherId / motherId / spouseId / focusPersonId
NoPersonId == 0

\* a null birthYear
NoYear == 0

\* const nodeSpacing = { x: 180, y: 120 }
nodeSpacingX == 180

nodeSpacingY == 120

\* x: startX + 140 of the spouse node
spouseOffsetX == 140

\* buildSubtree(singleRoot, 0, 400)
focusedRootX == 400

\* const rootX = index * 500 + 300
rootSpacingX == 500

rootOffsetX == 300

Person(id, fatherId, motherId, spouseId, birthYear) ==
  [ id |-> id, fatherId |-> fatherId, motherId |-> motherId,
    spouseId |-> spouseId, birthYear |-> birthYear, deathYear |-> NoYear ]

\* what Array.prototype.find returns when nothing matches
NoPerson == Person(NoPersonId, NoPersonId, NoPersonId, NoPersonId, NoYear)

Max(a, b) == IF a >= b THEN a ELSE b

\* dataToUse.find(p => p.id === id)
find(data, id) ==
  IF \E i \in 1 .. Len(data) : data[i].id = id
    THEN data[CHOOSE i \in 1 .. Len(data) :
                /\ data[i].id = id
                /\ \A j \in 1 .. (i - 1) : data[j].id # id]
  ELSE NoPerson

\* a mutant of the children filter: only the fatherId is compared
childrenOfFather(data, person) ==
  SelectSeq(data, LAMBDA p : p.fatherId = person.id)

\* dataToUse.filter(p => p.fatherId === person.id || p.motherId === person.id)
childrenOf(data, person) ==
  SelectSeq(data, LAMBDA p : p.fatherId = person.id \/ p.motherId = person.id)

\* person.spouseId ? dataToUse.find(p => p.id === person.spouseId) : undefined
spouseOf(data, person) ==
  IF person.spouseId # NoPersonId THEN find(data, person.spouseId) ELSE NoPerson

TreeLayoutNode(id, x, y, level, subtreeWidth, children, spouse) ==
  [ id |-> id, x |-> x, y |-> y, level |-> level, index |-> 0,
    subtreeWidth |-> subtreeWidth, children |-> children, spouse |-> spouse ]

\* a mutant of the spouse node: it is placed one generation lower
spouseNodeBelow(spouse, level, startX) ==
  TreeLayoutNode(spouse.id, startX + spouseOffsetX, (level + 1) * nodeSpacingY,
                 level + 1, 0, << >>, << >>)

\* treeNode.spouse = { ..., x: startX + 140, y: level * nodeSpacing.y, level, ... }
spouseNode(spouse, level, startX) ==
  TreeLayoutNode(spouse.id, startX + spouseOffsetX, level * nodeSpacingY,
                 level, 0, << >>, << >>)

\* a mutant of the child anchor: the half spacing is not added back
childStartXLeftEdge(startX, subtreeWidth) ==
  startX - (subtreeWidth \div 2)

\* const childStartX = startX - (subtreeWidth / 2) + (nodeSpacing.x / 2)
childStartX(startX, subtreeWidth) ==
  startX - (subtreeWidth \div 2) + (nodeSpacingX \div 2)

\* a mutant of the width sum: the reduce keeps the last child's width only
SumWidthsLast(nodes) ==
  IF nodes = << >> THEN 0 ELSE nodes[Len(nodes)].subtreeWidth

RECURSIVE SumWidths(_)
\* treeNode.children.reduce((sum, child) => sum + child.subtreeWidth, 0)
SumWidths(nodes) ==
  IF nodes = << >> THEN 0
  ELSE Head(nodes).subtreeWidth + SumWidths(Tail(nodes))

\* let totalNodes = 0; let maxDepth = 0 (overflow: the call stack ran out)
NoCounters == [ totalNodes |-> 0, maxDepth |-> 0, overflow |-> FALSE ]

\* a mutant of the counters: spouse-less leaves are not counted
enterNoCount(counters, level) ==
  [ counters EXCEPT !.maxDepth = Max(counters.maxDepth, level) ]

\* totalNodes++; maxDepth = Math.max(maxDepth, level)
enter(counters, level) ==
  [ counters EXCEPT !.totalNodes = counters.totalNodes + 1,
                    !.maxDepth = Max(counters.maxDepth, level) ]

RECURSIVE buildSubtree(_, _, _, _, _)
RECURSIVE buildChildren(_, _, _, _, _, _)
\* children.map((child, index) =>
\*   buildSubtree(child, level + 1, childStartX + (index * nodeSpacing.x)))
buildChildren(data, children, k, level, startX, counters) ==
  IF k > Len(children) THEN [ nodes |-> << >>, counters |-> counters ]
  ELSE
    LET first == buildSubtree(data, children[k], level,
                              startX + ((k - 1) * nodeSpacingX), counters)
        rest == buildChildren(data, children, k + 1, level, startX, first.counters)
    IN  [ nodes |-> << first.node >> \o rest.nodes, counters |-> rest.counters ]

\* buildSubtree(person, level, startX); a path longer than the working set
\* repeats a person, and the recursion then never returns
buildSubtree(data, person, level, startX, counters) ==
  IF level >= Len(data)
    THEN [ node |-> TreeLayoutNode(person.id, startX, level * nodeSpacingY, level,
                                   0, << >>, << >>),
           counters |-> [ counters EXCEPT !.overflow = TRUE ] ]
  ELSE
    LET children == childrenOf(data, person)
        spouse == spouseOf(data, person)
        subtreeWidth == Max(1, Len(children)) * nodeSpacingX
        built == buildChildren(data, children, 1, level + 1,
                               childStartX(startX, subtreeWidth),
                               enter(counters, level))
    IN  [ node |->
            TreeLayoutNode(
              person.id, startX, level * nodeSpacingY, level,
              IF Len(children) > 0
                THEN Max(subtreeWidth, SumWidths(built.nodes))
                ELSE subtreeWidth,
              built.nodes,
              IF spouse # NoPerson THEN << spouseNode(spouse, level, startX) >>
              ELSE << >>),
          counters |-> built.counters ]

RECURSIVE findTopAncestorFatherFirst(_, _, _)
\* a mutant of findTopAncestor: with both parents present the father's line
\* is followed whatever the birth years
findTopAncestorFatherFirst(data, person, steps) ==
  LET father == IF person.fatherId # NoPersonId THEN find(data, person.fatherId)
                ELSE NoPerson
      mother == IF person.motherId # NoPersonId THEN find(data, person.motherId)
                ELSE NoPerson
  IN  IF steps > Len(data) THEN [ person |-> person, overflow |-> TRUE ]
      ELSE IF father = NoPerson /\ mother = NoPerson
        THEN [ person |-> person, overflow |-> FALSE ]
      ELSE IF father # NoPerson
        THEN findTopAncestorFatherFirst(data, father, steps + 1)
      ELSE findTopAncestorFatherFirst(data, mother, steps + 1)

RECURSIVE findTopAncestor(_, _, _)
\* findTopAncestor(person); steps counts the calls on the stack
findTopAncestor(data, person, steps) ==
  LET father == IF person.fatherId # NoPersonId THEN find(data, person.fatherId)
                ELSE NoPerson
      mother == IF person.motherId # NoPersonId THEN find(data, person.motherId)
                ELSE NoPerson
      chosenParent ==
        IF father.birthYear # NoYear /\ mother.birthYear # NoYear
          THEN (IF father.birthYear <= mother.birthYear THEN father ELSE mother)
        ELSE IF mother.birthYear # NoYear /\ father.birthYear = NoYear THEN mother
        ELSE father
  IN  IF steps > Len(data) THEN [ person |-> person, overflow |-> TRUE ]
      ELSE IF father = NoPerson /\ mother = NoPerson
        THEN [ person |-> person, overflow |-> FALSE ]
      ELSE IF father # NoPerson /\ mother = NoPerson
        THEN findTopAncestor(data, father, steps + 1)
      ELSE IF mother # NoPerson /\ father = NoPerson
        THEN findTopAncestor(data, mother, steps + 1)
      ELSE findTopAncestor(data, chosenParent, steps + 1)

RECURSIVE oldestPersonLastOnTie(_, _, _)
\* a mutant of oldestPerson: of two persons born the same year the later wins
oldestPersonLastOnTie(data, k, oldest) ==
  IF k > Len(data) THEN oldest
  ELSE
    LET current == data[k]
    IN  oldestPersonLastOnTie(data, k + 1,
          IF oldest.birthYear = NoYear /\ current.birthYear # NoYear THEN current
          ELSE IF oldest.birthYear # NoYear /\ current.birthYear = NoYear THEN oldest
          ELSE IF oldest.birthYear # NoYear /\ current.birthYear # NoYear
            THEN (IF current.birthYear <= oldest.birthYear THEN current ELSE oldest)
          ELSE oldest)

RECURSIVE oldestPerson(_, _, _)
\* dataToUse.reduce((oldest, current) => ..., dataToUse[0])
oldestPerson(data, k, oldest) ==
  IF k > Len(data) THEN oldest
  ELSE
    LET current == data[k]
    IN  oldestPerson(data, k + 1,
          IF oldest.birthYear = NoYear /\ current.birthYear # NoYear THEN current
          ELSE IF oldest.birthYear # NoYear /\ current.birthYear = NoYear THEN oldest
          ELSE IF oldest.birthYear # NoYear /\ current.birthYear # NoYear
            THEN (IF current.birthYear < oldest.birthYear THEN current ELSE oldest)
          ELSE oldest)

\* a mutant of the root filter: a person with a mother only counts as a root
rootsOfNoFather(data) ==
  SelectSeq(data, LAMBDA person : person.fatherId = NoPersonId)

\* dataToUse.filter(person => !person.fatherId && !person.motherId), and the
\* oldest person pushed when that is empty
rootsOf(data) ==
  LET roots == SelectSeq(data, LAMBDA person :
                 person.fatherId = NoPersonId /\ person.motherId = NoPersonId)
  IN  IF Len(roots) = 0 /\ Len(data) > 0
        THEN << oldestPerson(data, 1, data[1]) >>
      ELSE roots

RECURSIVE buildRoots(_, _, _, _)
\* roots.map((root, index) => buildSubtree(root, 0, index * 500 + 300))
buildRoots(data, roots, k, counters) ==
  IF k > Len(roots) THEN [ nodes |-> << >>, counters |-> counters ]
  ELSE
    LET first == buildSubtree(data, roots[k], 0,
                              ((k - 1) * rootSpacingX) + rootOffsetX, counters)
        rest == buildRoots(data, roots, k + 1, first.counters)
    IN  [ nodes |-> << first.node >> \o rest.nodes, counters |-> rest.counters ]

\* { roots: [], stats: { totalNodes: 0, maxDepth: 0, generations: 0 } }
EmptyTree ==
  [ roots |-> << >>,
    stats |-> [ totalNodes |-> 0, maxDepth |-> 0, generations |-> 0 ] ]

\* the recursion exhausted the call stack: no layout is produced
StackOverflow == [ roots |-> << >>, stats |-> [ error |-> "RangeError" ] ]

\* if (focusPersonId && isFiltered)
focusedMode(focusId, filtered) == focusId # NoPersonId /\ filtered

buildSingleFocusedTree(data, focusId, filtered) ==
  IF focusedMode(focusId, filtered)
    THEN
      LET focusPerson == find(data, focusId)
          singleRoot == findTopAncestor(data, focusPerson, 1)
          built == buildSubtree(data, singleRoot.person, 0, focusedRootX, NoCounters)
      IN  IF focusPerson = NoPerson THEN EmptyTree
          ELSE IF singleRoot.overflow \/ built.counters.overflow THEN StackOverflow
          ELSE [ roots |-> << built.node >>,
                 stats |-> [ totalNodes |-> built.counters.totalNodes,
                             maxDepth |-> built.counters.maxDepth,
                             generations |-> built.counters.maxDepth + 1,
                             families |-> 1,
                             focusedOn |-> focusPerson.id ] ]
  ELSE
    LET built == buildRoots(data, rootsOf(data), 1, NoCounters)
    IN  IF built.counters.overflow THEN StackOverflow
        ELSE [ roots |-> built.nodes,
               stats |-> [ totalNodes |-> built.counters.totalNodes,
                           maxDepth |-> built.counters.maxDepth,
                           generations |-> built.counters.maxDepth + 1,
                           families |-> Len(built.nodes) ] ]

\* const dataToUse = filteredPersons.length > 0 ? filteredPersons : persons
dataToUseOf(all, filtered) == IF Len(filtered) > 0 THEN filtered ELSE all

\* the treeData memo
treeDataOf(all, filtered, focusId, filteredFlag) ==
  IF Len(dataToUseOf(all, filtered)) = 0 THEN EmptyTree
  ELSE buildSingleFocusedTree(dataToUseOf(all, filtered), focusId, filteredFlag)

dataToUse == dataToUseOf(persons, filteredPersons)

\* handleFilterChange(filtered, focusId), and the treeData memo recomputed
handleFilterChange(filtered, focusId) ==
  /\ filteredPersons' = filtered
  /\ focusPersonId' = focusId
  /\ isFiltered' = (Len(filtered) # Len(persons) /\ Len(filtered) > 0)
  /\ treeData' = treeDataOf(persons, filtered, focusId,
                            Len(filtered) # Len(persons) /\ Len(filtered) > 0)

\* FamilyFilter's effect: onFilterChange(filteredResults.persons,
\* filterSettings.focusPersonId || undefined)
onFilterChange ==
  /\ handleFilterChange(familyFilter.persons, familyFilter.focusPersonId)
  /\ UNCHANGED << persons, familyFilter, filterSettings, filteredResults, relVars,
                  personVars >>

(***************************************************************************)
(* Layout specification: the persons query returns MaxPersons persons      *)
(* whose parents precede them; the filter hands over a sub-list and a      *)
(* focus                                                                   *)
(***************************************************************************)
PersonIds == 1 .. MaxPersons

\* fatherId per person: none, or an earlier person of the list
FatherChoices ==
  { g \in [ PersonIds -> 0 .. (MaxPersons - 1) ] : \A i \in PersonIds : g[i] < i }

\* motherId per person: none, or the person just before in the list
MotherChoices ==
  { g \in [ PersonIds -> 0 .. (MaxPersons - 1) ] :
      \A i \in PersonIds : g[i] \in { NoPersonId, i - 1 } }

\* the first two or the last two persons of the list
Couples == { << 1, 2 >>, << MaxPersons - 1, MaxPersons >> } \cap (PersonIds \X PersonIds)

\* spouseId per person: nobody has one, or the first of a couple has the
\* second as spouse, or the two have each other
SpouseChoices ==
  { [ i \in PersonIds |-> NoPersonId ] }
    \cup { [ i \in PersonIds |-> IF i = c[1] THEN c[2] ELSE NoPersonId ] : c \in Couples }
    \cup { [ i \in PersonIds |-> IF i = c[1] THEN c[2]
                                 ELSE IF i = c[2] THEN c[1] ELSE NoPersonId ] :
             c \in Couples }

PersonLists ==
  { [ i \in PersonIds |-> Person(i, f[i], m[i], sp[i], NoYear) ] :
      f \in FatherChoices, m \in MotherChoices, sp \in SpouseChoices }

\* the sub-lists of the loaded persons, in their order
SubLists(all) ==
  { SelectSeq(all, LAMBDA p : p.id \in S) : S \in SUBSET { all[i].id : i \in 1 .. Len(all) } }

\* what FamilyFilter may hand over: a sub-list and no focus, or a sub-list
\* and a focus person that is in it
FilterResults(all) ==
  { r \in [ focusPersonId : { NoPersonId } \cup { all[i].id : i \in 1 .. Len(all) },
            persons : SubLists(all) ] :
      \/ r.focusPersonId = NoPersonId
      \/ \E i \in 1 .. Len(r.persons) : r.persons[i].id = r.focusPersonId }

NoRelationships ==
  /\ table = {}
  /\ nextId = 1
  /\ last = NoRequest
  /\ calls = [ p \in {} |-> NoCall ]

\* the persons query resolved: setFilteredPersons(persons), setIsFiltered(false)
InitLayout ==
  /\ NoRelationships
  /\ persons \in PersonLists
  /\ Stored(persons)
  /\ NoFilter(persons)
  /\ filteredPersons = persons
  /\ focusPersonId = NoPersonId
  /\ isFiltered = FALSE
  /\ treeData = treeDataOf(persons, persons, NoPersonId, FALSE)
  /\ familyFilter \in FilterResults(persons)

NextLayout == onFilterChange

SpecLayout == InitLayout /\ [][NextLayout]_vars

(***************************************************************************)
(* Layout specification over parent links that person edits can produce:   *)
(* PUT /api/persons/[id] stores any fatherId / motherId, so a person may   *)
(* be their own parent or the parent of one of their ancestors             *)
(***************************************************************************)
\* fatherId per person: none, or any person of the list
AnyFatherChoices == [ PersonIds -> { NoPersonId } \cup PersonIds ]

\* motherId per person: nobody has one, or the first person has the last
AnyMotherChoices ==
  { [ i \in PersonIds |-> NoPersonId ],
    [ i \in PersonIds |-> IF i = 1 THEN MaxPersons ELSE NoPersonId ] }

EditedPersonLists ==
  { [ i \in PersonIds |-> Person(i, f[i], m[i], NoPersonId, NoYear) ] :
      f \in AnyFatherChoices, m \in AnyMotherChoices }

InitEdited ==
  /\ NoRelationships
  /\ persons \in EditedPersonLists
  /\ Stored(persons)
  /\ NoFilter(persons)
  /\ filteredPersons = persons
  /\ focusPersonId = NoPersonId
  /\ isFiltered = FALSE
  /\ treeData = treeDataOf(persons, persons, NoPersonId, FALSE)
  /\ familyFilter \in FilterResults(persons)

SpecEdited == InitEdited /\ [][NextLayout]_vars

(***************************************************************************)
(* Layout specification with birth years: the persons of SpecLayout        *)
(* without spouses, each with or without a birthYear, and a filter result  *)
(* that names a focus person                                               *)
(***************************************************************************)
\* birthYear per person: nobody has one, all have the same, they rise or
\* fall along the list, or only every other person has one
YearChoices ==
  { [ i \in PersonIds |-> NoYear ],
    [ i \in PersonIds |-> 1 ],
    [ i \in PersonIds |-> i ],
    [ i \in PersonIds |-> (MaxPersons + 1) - i ],
    [ i \in PersonIds |-> IF i % 2 = 1 THEN i ELSE NoYear ],
    [ i \in PersonIds |-> IF i % 2 = 0 THEN i ELSE NoYear ] }

DatedPersonLists ==
  { [ i \in PersonIds |-> Person(i, f[i], m[i], NoPersonId, y[i]) ] :
      f \in FatherChoices, m \in MotherChoices, y \in YearChoices }

InitDated ==
  /\ NoRelationships
  /\ persons \in DatedPersonLists
  /\ Stored(persons)
  /\ NoFilter(persons)
  /\ filteredPersons = persons
  /\ focusPersonId = NoPersonId
  /\ isFiltered = FALSE
  /\ treeData = treeDataOf(persons, persons, NoPersonId, FALSE)
  /\ familyFilter \in { r \in FilterResults(persons) : r.focusPersonId # NoPersonId }

SpecDated == InitDated /\ [][NextLayout]_vars

(***************************************************************************)
(* Layout specification for persons with two parents: the persons of       *)
(* SpecLayout without spouses, so that a person is reached through the     *)
(* father and through the mother                                           *)
(***************************************************************************)
ParentsPersonLists ==
  { [ i \in PersonIds |-> Person(i, f[i], m[i], NoPersonId, NoYear) ] :
      f \in FatherChoices, m \in MotherChoices }

InitParents ==
  /\ NoRelationships
  /\ persons \in ParentsPersonLists
  /\ Stored(persons)
  /\ NoFilter(persons)
  /\ filteredPersons = persons
  /\ focusPersonId = NoPersonId
  /\ isFiltered = FALSE
  /\ treeData = treeDataOf(persons, persons, NoPersonId, FALSE)
  /\ familyFilter \in FilterResults(persons)

SpecParents == InitParents /\ [][NextLayout]_vars

(***************************************************************************)
(* Layout specification for the fallback root: persons with or without a   *)
(* birthYear whose father links are acyclic or form cycles, and a filter   *)
(* result without a focus, so that the view stays in normal mode on a      *)
(* working set that may lack the fathers of its persons                    *)
(***************************************************************************)
\* fatherId per person: an earlier person of the list, or none, the person
\* itself or the next person round the list
FallbackFatherChoices ==
  FatherChoices \cup
  { g \in [ PersonIds -> 0 .. MaxPersons ] :
      \A i \in PersonIds : g[i] \in { NoPersonId, i, (i % MaxPersons) + 1 } }

\* birthYear per person: as in YearChoices, or all but the first person are
\* born the same year and the first has no birthYear or a later one
FallbackYearChoices ==
  YearChoices \cup
  { [ i \in PersonIds |-> IF i = 1 THEN NoYear ELSE 1 ],
    [ i \in PersonIds |-> IF i = 1 THEN 2 ELSE 1 ] }

FallbackPersonLists ==
  { [ i \in PersonIds |-> Person(i, f[i], NoPersonId, NoPersonId, y[i]) ] :
      f \in FallbackFatherChoices, y \in FallbackYearChoices }

InitFallback ==
  /\ NoRelationships
  /\ persons \in FallbackPersonLists
  /\ Stored(persons)
  /\ NoFilter(persons)
  /\ filteredPersons = persons
  /\ focusPersonId = NoPersonId
  /\ isFiltered = FALSE
  /\ treeData = treeDataOf(persons, persons, NoPersonId, FALSE)
  /\ familyFilter \in { r \in FilterResults(persons) : r.focusPersonId = NoPersonId }

SpecFallback == InitFallback /\ [][NextLayout]_vars

(***************************************************************************)
(* Layout specification for larger families: MaxForest persons, each with  *)
(* no parent or an earlier person as father; the filter hands over the     *)
(* whole list, or the list without its last person and the first person    *)
(* as focus                                                                *)
(***************************************************************************)
ForestIds == 1 .. MaxForest

ForestFatherChoices ==
  { g \in [ ForestIds -> 0 .. (MaxForest - 1) ] : \A i \in ForestIds : g[i] < i }

ForestPersonLists ==
  { [ i \in ForestIds |-> Person(i, f[i], NoPersonId, NoPersonId, NoYear) ] :
      f \in ForestFatherChoices }

ForestFilterResults(all) ==
  { [ focusPersonId |-> NoPersonId, persons |-> all ],
    [ focusPersonId |-> NoPersonId, persons |-> SubSeq(all, 1, Len(all) - 1) ],
    [ focusPersonId |-> all[1].id, persons |-> SubSeq(all, 1, Len(all) - 1) ] }

InitForest ==
  /\ NoRelationships
  /\ persons \in ForestPersonLists
  /\ Stored(persons)
  /\ NoFilter(persons)
  /\ filteredPersons = persons
  /\ focusPersonId = NoPersonId
  /\ isFiltered = FALSE
  /\ treeData = treeDataOf(persons, persons, NoPersonId, FALSE)
  /\ familyFilter \in ForestFilterResults(persons)

SpecForest == InitForest /\ [][NextLayout]_vars

(***************************************************************************)
(* FamilyFilter: the family members of a focus person                      *)
(***************************************************************************)
RECURSIVE repeat(_, _)
\* String.prototype.repeat
repeat(str, count) == IF count <= 0 THEN "" ELSE str \o repeat(str, count - 1)

\* a mutant of the relation label: 'Great-' is repeated once too often
relationOfExtraGreat(currentGeneration, parent, grandparent) ==
  IF currentGeneration = 0 THEN parent
  ELSE IF currentGeneration = 1 THEN grandparent
  ELSE "Great-" \o repeat("Great-", currentGeneration - 1) \o grandparent

\* currentGeneration === 0 ? 'Father' : currentGeneration === 1 ? 'Grandfather'
\*   : `Great-${'Great-'.repeat(currentGeneration-2)}Grandfather`
relationOf(currentGeneration, parent, grandparent) ==
  IF currentGeneration = 0 THEN parent
  ELSE IF currentGeneration = 1 THEN grandparent
  ELSE "Great-" \o repeat("Great-", currentGeneration - 2) \o grandparent

\* new Map(), new Set(), and the focus person set as the center; attempts
\* records, in call order, what was offered to the map
NewFamily(focusPerson) ==
  [ familyMembers |-> << [ person |-> focusPerson, relation |-> "Focus Person",
                           generation |-> 0 ] >>,
    attempts |-> << [ person |-> focusPerson, relation |-> "Focus Person",
                      generation |-> 0 ] >>,
    spouses |-> {}, overflow |-> FALSE ]

\* familyMembers.has(id)
has(family, id) ==
  \E i \in 1 .. Len(family.familyMembers) : family.familyMembers[i].person.id = id

\* a mutant of addFamilyMember: the later assignment replaces the earlier
addFamilyMemberLastWins(family, person, relation, generation) ==
  [ family EXCEPT
      !.attempts = Append(@, [ person |-> person, relation |-> relation,
                               generation |-> generation ]),
      !.familyMembers =
      IF has(family, person.id)
        THEN [ i \in 1 .. Len(@) |->
                 IF @[i].person.id = person.id
                   THEN [ person |-> person, relation |-> relation,
                          generation |-> generation ]
                 ELSE @[i] ]
      ELSE Append(@, [ person |-> person, relation |-> relation,
                       generation |-> generation ]) ]

\* addFamilyMember(person, relation, generation)
addFamilyMember(family, person, relation, generation) ==
  LET offered == [ person |-> person, relation |-> relation,
                   generation |-> generation ]
  IN  IF has(family, person.id)
        THEN [ family EXCEPT !.attempts = Append(@, offered) ]
      ELSE [ family EXCEPT !.attempts = Append(@, offered),
                           !.familyMembers = Append(@, offered) ]

\* a mutant of addSpouse: the person is added whether the list has one or not
addSpouseUnchecked(family, allPersons, id, relation, generation) ==
  LET found == find(allPersons, id)
  IN  addFamilyMember([ family EXCEPT !.spouses = @ \cup { found.id } ],
                      found, relation, generation)

\* if (found) { spouses.add(found.id); addFamilyMember(found, relation, generation) }
\* for the person the id names, when the list has one
addSpouse(family, allPersons, id, relation, generation) ==
  LET found == find(allPersons, id)
  IN  IF found = NoPerson THEN family
      ELSE addFamilyMember([ family EXCEPT !.spouses = @ \cup { found.id } ],
                           found, relation, generation)

RECURSIVE getAncestorsUnbounded(_, _, _, _, _, _)
\* a mutant of getAncestors: the generation count does not stop the ascent
getAncestorsUnbounded(family, allPersons, settings, person, currentGeneration, maxGenerations) ==
  IF currentGeneration > CallStackDepth THEN [ family EXCEPT !.overflow = TRUE ]
  ELSE
    LET father == IF person.fatherId # NoPersonId
                    THEN find(allPersons, person.fatherId) ELSE NoPerson
        withFather ==
          IF father = NoPerson THEN family
          ELSE
            LET added == addFamilyMember(family, father,
                           relationOf(currentGeneration, "Father", "Grandfather"),
                           currentGeneration + 1)
                stepped ==
                  IF /\ settings.includeSpouses
                     /\ father.spouseId # NoPersonId
                     /\ father.spouseId # person.motherId
                    THEN addSpouse(added, allPersons, father.spouseId,
                                   "Step-mother", currentGeneration + 1)
                  ELSE added
            IN  getAncestorsUnbounded(stepped, allPersons, settings, father,
                             currentGeneration + 1, maxGenerations)
        mother == IF person.motherId # NoPersonId
                    THEN find(allPersons, person.motherId) ELSE NoPerson
    IN  IF mother = NoPerson THEN withFather
        ELSE
          LET added == addFamilyMember(withFather, mother,
                         relationOf(currentGeneration, "Mother", "Grandmother"),
                         currentGeneration + 1)
              stepped ==
                IF /\ settings.includeSpouses
                   /\ mother.spouseId # NoPersonId
                   /\ mother.spouseId # person.fatherId
                  THEN addSpouse(added, allPersons, mother.spouseId,
                                 "Step-father", currentGeneration + 1)
                ELSE added
          IN  getAncestorsUnbounded(stepped, allPersons, settings, mother,
                           currentGeneration + 1, maxGenerations)

RECURSIVE getAncestors(_, _, _, _, _, _)
\* getAncestors(person, currentGeneration, maxGenerations)
getAncestors(family, allPersons, settings, person, currentGeneration, maxGenerations) ==
  IF currentGeneration > CallStackDepth THEN [ family EXCEPT !.overflow = TRUE ]
  ELSE IF currentGeneration >= maxGenerations THEN family
  ELSE
    LET father == IF person.fatherId # NoPersonId
                    THEN find(allPersons, person.fatherId) ELSE NoPerson
        withFather ==
          IF father = NoPerson THEN family
          ELSE
            LET added == addFamilyMember(family, father,
                           relationOf(currentGeneration, "Father", "Grandfather"),
                           currentGeneration + 1)
                stepped ==
                  IF /\ settings.includeSpouses
                     /\ father.spouseId # NoPersonId
                     /\ father.spouseId # person.motherId
                    THEN addSpouse(added, allPersons, father.spouseId,
                                   "Step-mother", currentGeneration + 1)
                  ELSE added
            IN  getAncestors(stepped, allPersons, settings, father,
                             currentGeneration + 1, maxGenerations)
        mother == IF person.motherId # NoPersonId
                    THEN find(allPersons, person.motherId) ELSE NoPerson
    IN  IF mother = NoPerson THEN withFather
        ELSE
          LET added == addFamilyMember(withFather, mother,
                         relationOf(currentGeneration, "Mother", "Grandmother"),
                         currentGeneration + 1)
              stepped ==
                IF /\ settings.includeSpouses
                   /\ mother.spouseId # NoPersonId
                   /\ mother.spouseId # person.fatherId
                  THEN addSpouse(added, allPersons, mother.spouseId,
                                 "Step-father", currentGeneration + 1)
                ELSE added
          IN  getAncestors(stepped, allPersons, settings, mother,
                           currentGeneration + 1, maxGenerations)

RECURSIVE getDescendants(_, _, _, _, _, _)
RECURSIVE forEachChild(_, _, _, _, _, _, _)
\* children.forEach(child => { ... getDescendants(child, ...) }), from the k-th
forEachChild(family, allPersons, settings, children, k, currentGeneration, maxGenerations) ==
  IF k > Len(children) THEN family
  ELSE
    LET child == children[k]
        relation == relationOf(currentGeneration, "Child", "Grandchild")
        added == addFamilyMember(family, child, relation, -(currentGeneration + 1))
        wed == IF settings.includeSpouses /\ child.spouseId # NoPersonId
                 THEN addSpouse(added, allPersons, child.spouseId,
                                relation \o "'s Spouse", -(currentGeneration + 1))
               ELSE added
        below == getDescendants(wed, allPersons, settings, child,
                                currentGeneration + 1, maxGenerations)
    IN  forEachChild(below, allPersons, settings, children, k + 1,
                     currentGeneration, maxGenerations)

\* getDescendants(person, currentGeneration, maxGenerations)
getDescendants(family, allPersons, settings, person, currentGeneration, maxGenerations) ==
  IF currentGeneration > CallStackDepth THEN [ family EXCEPT !.overflow = TRUE ]
  ELSE IF currentGeneration >= maxGenerations THEN family
  ELSE forEachChild(family, allPersons, settings, childrenOf(allPersons, person), 1,
                    currentGeneration, maxGenerations)
RECURSIVE addAll(_, _, _, _, _)
\* list.forEach(p => addFamilyMember(p, relation, generation)), from the k-th
addAll(family, list, k, relation, generation) ==
  IF k > Len(list) THEN family
  ELSE addAll(addFamilyMember(family, list[k], relation, generation),
              list, k + 1, relation, generation)

\* allPersons.filter(p => p.id !== person.id &&
\*   ((person.fatherId && p.fatherId === person.fatherId) ||
\*    (person.motherId && p.motherId === person.motherId)))
siblingsOf(allPersons, person) ==
  SelectSeq(allPersons, LAMBDA p :
    /\ p.id # person.id
    /\ \/ person.fatherId # NoPersonId /\ p.fatherId = person.fatherId
       \/ person.motherId # NoPersonId /\ p.motherId = person.motherId)

RECURSIVE forEachSibling(_, _, _, _, _, _)
\* siblings.forEach(sibling => { ... }), from the k-th
forEachSibling(family, allPersons, settings, person, siblings, k) ==
  IF k > Len(siblings) THEN family
  ELSE
    LET sibling == siblings[k]
        isFullSibling == /\ person.fatherId = sibling.fatherId
                         /\ person.motherId = sibling.motherId
        relation == IF isFullSibling THEN "Sibling" ELSE "Half-Sibling"
        added == addFamilyMember(family, sibling, relation, 0)
        wed == IF settings.includeSpouses /\ sibling.spouseId # NoPersonId
                 THEN addSpouse(added, allPersons, sibling.spouseId,
                                relation \o "'s Spouse", 0)
               ELSE added
        withNiblings ==
          IF settings.includeExtendedFamily
            THEN addAll(wed, childrenOf(allPersons, sibling), 1, "Niece/Nephew", -1)
          ELSE wed
    IN  forEachSibling(withNiblings, allPersons, settings, person, siblings, k + 1)

\* getSiblings(person)
getSiblings(family, allPersons, settings, person) ==
  IF ~settings.includeSiblings THEN family
  ELSE forEachSibling(family, allPersons, settings, person,
                      siblingsOf(allPersons, person), 1)

RECURSIVE forEachAuntUncle(_, _, _, _)
\* parentSiblings.forEach(auntUncle => { ... cousins ... }), from the k-th
forEachAuntUncle(family, allPersons, parentSiblings, k) ==
  IF k > Len(parentSiblings) THEN family
  ELSE
    LET auntUncle == parentSiblings[k]
        added == addFamilyMember(family, auntUncle, "Aunt/Uncle", 1)
        withCousins == addAll(added, childrenOf(allPersons, auntUncle), 1, "Cousin", 0)
    IN  forEachAuntUncle(withCousins, allPersons, parentSiblings, k + 1)

\* the body of [person.fatherId, person.motherId].forEach(parentId => ...)
forParent(family, allPersons, parentId) ==
  LET parent == find(allPersons, parentId)
  IN  IF parentId = NoPersonId \/ parent = NoPerson THEN family
      ELSE forEachAuntUncle(family, allPersons, siblingsOf(allPersons, parent), 1)

\* getExtendedFamily(person)
getExtendedFamily(family, allPersons, settings, person) ==
  IF ~settings.includeExtendedFamily THEN family
  ELSE forParent(forParent(family, allPersons, person.fatherId),
                 allPersons, person.motherId)

\* byRelation[relation] = (byRelation[relation] || 0) + 1 over familyArray
byRelationOf(familyArray) ==
  [ relation \in { familyArray[i].relation : i \in 1 .. Len(familyArray) } |->
      Cardinality({ i \in 1 .. Len(familyArray) : familyArray[i].relation = relation }) ]

\* the memo threw: the call stack was exhausted
FilterOverflow ==
  [ persons |-> << >>, familyMembers |-> << >>, attempts |-> << >>,
    stats |-> [ error |-> "RangeError" ] ]

\* the filteredResults memo
filteredResultsOf(allPersons, settings) ==
  LET focusPerson == find(allPersons, settings.focusPersonId)
      seeded == NewFamily(focusPerson)
      wed == IF settings.includeSpouses /\ focusPerson.spouseId # NoPersonId
               THEN addSpouse(seeded, allPersons, focusPerson.spouseId, "Spouse", 0)
             ELSE seeded
      up == getAncestors(wed, allPersons, settings, focusPerson, 0,
                         settings.generationsUp)
      down == getDescendants(up, allPersons, settings, focusPerson, 0,
                             settings.generationsDown)
      level == getSiblings(down, allPersons, settings, focusPerson)
      family == getExtendedFamily(level, allPersons, settings, focusPerson)
      familyArray == family.familyMembers
  IN  IF settings.focusPersonId = NoPersonId \/ Len(allPersons) = 0
        THEN Unfiltered(allPersons)
      ELSE IF focusPerson = NoPerson THEN Unfiltered(allPersons)
      ELSE IF family.overflow THEN FilterOverflow
      ELSE [ persons |-> [ i \in 1 .. Len(familyArray) |-> familyArray[i].person ],
             familyMembers |-> familyArray,
             attempts |-> family.attempts,
             stats |-> [ total |-> Len(familyArray),
                         byRelation |-> byRelationOf(familyArray),
                         spousesIncluded |-> Cardinality(family.spouses) ] ]

\* the render after the settings changed: the filteredResults memo is
\* recomputed, and with it what the effect will hand to onFilterChange
renderFamilyFilter ==
  /\ filteredResults' = filteredResultsOf(persons, filterSettings)
  /\ familyFilter' = [ focusPersonId |-> filterSettings.focusPersonId,
                       persons |-> filteredResultsOf(persons, filterSettings).persons ]
  /\ UNCHANGED << persons, filterSettings, filteredPersons, focusPersonId,
                  isFiltered, treeData, relVars, personVars >>

(***************************************************************************)
(* Filter specification: the persons query returns MaxPersons persons with *)
(* parent and spouse links, some of them to a person the list lacks, or    *)
(* with parent links that form cycles; the user has changed the settings   *)
(* (a select, a switch, a preset or the reset) and the filter renders      *)
(***************************************************************************)
\* an id no loaded person has
GhostId == MaxPersons + 1

\* fatherId per person: none, or one of the two persons before
NearFatherChoices ==
  { g \in [ PersonIds -> 0 .. (MaxPersons - 1) ] :
      \A i \in PersonIds : g[i] \in { NoPersonId, i - 1, i - 2 } \cap (0 .. (i - 1)) }

\* motherId per person: nobody has one, or one person has one of the two
\* persons before, or the first person has one the list lacks
OneMotherChoices ==
  { [ i \in PersonIds |-> NoPersonId ] }
    \cup { [ i \in PersonIds |-> IF i = c THEN m ELSE NoPersonId ] :
             c \in PersonIds, m \in PersonIds }
    \cup { [ i \in PersonIds |-> IF i = 1 THEN GhostId ELSE NoPersonId ] }

\* the motherId choices in which the mother is one of the two persons
\* before, or is missing from the list
NearMotherChoices ==
  { m \in OneMotherChoices :
      \A i \in PersonIds : m[i] \in { NoPersonId, i - 1, i - 2, GhostId } \cap
                                     ((0 .. (i - 1)) \cup { GhostId }) }

\* spouseId per person: nobody has one, or the first person has the second
\* or the third, or the first two or the last two have each other, or the
\* last person has a spouse the list lacks
FilterSpouseChoices ==
  { [ i \in PersonIds |-> NoPersonId ] }
    \cup { [ i \in PersonIds |-> IF i = c[1] THEN c[2] ELSE NoPersonId ] :
             c \in { << 1, 2 >>, << 1, 3 >> } \cap (PersonIds \X PersonIds) }
    \cup { [ i \in PersonIds |-> IF i = c[1] THEN c[2]
                                 ELSE IF i = c[2] THEN c[1] ELSE NoPersonId ] :
             c \in Couples }
    \cup { [ i \in PersonIds |-> IF i = MaxPersons THEN GhostId ELSE NoPersonId ] }

\* fatherId per person, as edits can leave it: none, the person itself or
\* the next person round the list
CyclicFatherChoices ==
  [ PersonIds -> { NoPersonId } ] \cup
  { g \in [ PersonIds -> 0 .. MaxPersons ] :
      \A i \in PersonIds : g[i] \in { NoPersonId, i, (i % MaxPersons) + 1 } }

FilterPersonLists ==
  { [ i \in PersonIds |-> Person(i, f[i], m[i], sp[i], NoYear) ] :
      f \in NearFatherChoices,
      m \in NearMotherChoices,
      sp \in FilterSpouseChoices }
    \cup
  { [ i \in PersonIds |-> Person(i, f[i], m[i], NoPersonId, NoYear) ] :
      f \in CyclicFatherChoices, m \in AnyMotherChoices }

\* the settings the panel can be put in: the three switches all off or all
\* on with one generation count at zero or both equal, or any switches with
\* the largest counts
SettingsChoices ==
  { s \in [ focusPersonId : { NoPersonId, GhostId } \cup PersonIds,
            includeSpouses : BOOLEAN,
            generationsUp : 0 .. MaxGenerations,
            generationsDown : 0 .. MaxGenerations,
            includeSiblings : BOOLEAN,
            includeExtendedFamily : BOOLEAN ] :
      \/ /\ s.includeSpouses = s.includeSiblings
         /\ s.includeSiblings = s.includeExtendedFamily
         /\ \/ s.generationsUp = 0
            \/ s.generationsDown = 0
            \/ s.generationsUp = s.generationsDown
      \/ s.generationsUp = MaxGenerations /\ s.generationsDown = MaxGenerations }

\* setFilterSettings(...) has been called; the memo still holds the
\* unfiltered result
InitFilter ==
  /\ NoRelationships
  /\ persons \in FilterPersonLists
  /\ Stored(persons)
  /\ filterSettings \in SettingsChoices
  /\ filteredResults = Unfiltered(persons)
  /\ filteredPersons = persons
  /\ focusPersonId = NoPersonId
  /\ isFiltered = FALSE
  /\ treeData = EmptyTree
  /\ familyFilter = [ focusPersonId |-> NoPersonId, persons |-> persons ]

NextFilter == renderFamilyFilter

SpecFilter == InitFilter /\ [][NextFilter]_vars

(***************************************************************************)
(* The persons routes: POST /api/persons, PUT and DELETE /api/persons/[id] *)
(***************************************************************************)
\* a JSON value that is not a string (null, a number): z.string() rejects it
NotAString == -1

\* a request body: each link field is absent, not a string, or an id; the
\* body gives no birthYear and no deathYear
PersonBody(fatherId, motherId, spouseId) ==
  [ fatherId |-> fatherId, motherId |-> motherId, spouseId |-> spouseId,
    birthYear |-> NoYear, deathYear |-> NoYear ]

\* a request body that gives years (NoYear: the field is absent) and no links
YearsBody(birthYear, deathYear) ==
  [ PersonBody(NoPersonId, NoPersonId, NoPersonId) EXCEPT
      !.birthYear = birthYear, !.deathYear = deathYear ]

\* PersonSchema / UpdatePersonSchema: fatherId, motherId and spouseId are
\* z.string().optional() and no refinement looks at them; when the body
\* gives both years the first refinement wants deathYear >= birthYear
PersonSchemaParse(body) ==
  IF NotAString \in { body.fatherId, body.motherId, body.spouseId }
    THEN "ZodError"
  ELSE IF /\ body.birthYear # NoYear
          /\ body.deathYear # NoYear
          /\ body.deathYear < body.birthYear
    THEN "ZodError"
  ELSE "ok"

\* UpdatePersonSchema.parse(body): the id of the route is no part of it
UpdatePersonSchemaParse(id, body) == PersonSchemaParse(body)

StoredIds(tbl) == { r.id : r \in tbl }

\* the foreign keys of Person.fatherId / motherId / spouseId hold for the row
ForeignKeysHold(tbl, row) ==
  \A ref \in { row.fatherId, row.motherId, row.spouseId } :
    ref = NoPersonId \/ ref \in StoredIds(tbl) \cup { row.id }

\* the row with the fields the data provides
WithData(row, data) ==
  [ row EXCEPT
      !.fatherId = IF data.fatherId = NoPersonId THEN @ ELSE data.fatherId,
      !.motherId = IF data.motherId = NoPersonId THEN @ ELSE data.motherId,
      !.spouseId = IF data.spouseId = NoPersonId THEN @ ELSE data.spouseId,
      !.birthYear = IF data.birthYear = NoYear THEN @ ELSE data.birthYear,
      !.deathYear = IF data.deathYear = NoYear THEN @ ELSE data.deathYear ]

\* prisma.person.create({ data })
personCreate(tbl, id, data) ==
  LET row == WithData(Person(id, NoPersonId, NoPersonId, NoPersonId, NoYear), data)
  IN  IF ~ForeignKeysHold(tbl, [ row EXCEPT !.id = NoPersonId ])
        THEN [ table |-> tbl, error |-> "P2003" ]
      ELSE [ table |-> tbl \cup { row }, error |-> "none" ]

\* prisma.person.update({ where: { id }, data })
personUpdate(tbl, id, data) ==
  IF id \notin StoredIds(tbl) THEN [ table |-> tbl, error |-> "P2025" ]
  ELSE
    LET old == CHOOSE r \in tbl : r.id = id
        row == WithData(old, data)
    IN  IF ~ForeignKeysHold(tbl, row) THEN [ table |-> tbl, error |-> "P2003" ]
        ELSE [ table |-> (tbl \ { old }) \cup { row }, error |-> "none" ]

\* a mutant of updateMany: only the fatherId is looked at and cleared
personUpdateManyFatherOnly(tbl, id) ==
  { IF r.fatherId = id THEN [ r EXCEPT !.fatherId = NoPersonId ] ELSE r : r \in tbl }

\* prisma.person.updateMany({ where: { OR: [{ fatherId: id }, { motherId: id },
\*   { spouseId: id }] }, data: { fatherId: null, motherId: null, spouseId: null } })
personUpdateMany(tbl, id) ==
  { IF r.fatherId = id \/ r.motherId = id \/ r.spouseId = id
      THEN [ r EXCEPT !.fatherId = NoPersonId, !.motherId = NoPersonId,
                      !.spouseId = NoPersonId ]
    ELSE r : r \in tbl }

\* prisma.person.delete({ where: { id } }); the relations have no onDelete,
\* so a reference left to the row is set to null by the store
personDelete(tbl, id) ==
  IF id \notin StoredIds(tbl) THEN [ table |-> tbl, error |-> "P2025" ]
  ELSE [ table |->
           { [ r EXCEPT
                 !.fatherId = IF @ = id THEN NoPersonId ELSE @,
                 !.motherId = IF @ = id THEN NoPersonId ELSE @,
                 !.spouseId = IF @ = id THEN NoPersonId ELSE @ ] :
               r \in { q \in tbl : q.id # id } },
         error |-> "none" ]

PersonCanBegin(p) ==
  /\ calls[p].pc \in { "idle", "done" }
  /\ Made(calls, Procs) < MaxPersonCalls

\* POST /api/persons
PersonPOST(p, body) ==
  /\ PersonCanBegin(p)
  /\ LET c == Call("person_post", "POST", NoBody, NoPersonId, NoRow, 0, "none",
                   calls[p].made + 1)
         created == personCreate(personTable, nextPersonId, body)
     IN  IF PersonSchemaParse(body) = "ZodError"
           THEN /\ calls' = [ calls EXCEPT ![p] = Return(c, 400, "ZodError") ]
                /\ UNCHANGED personVars
         ELSE IF created.error # "none"
           THEN /\ calls' = [ calls EXCEPT ![p] = Return(c, 500, created.error) ]
                /\ UNCHANGED personVars
         ELSE /\ calls' = [ calls EXCEPT ![p] =
                              Return([ c EXCEPT !.id = nextPersonId ], 201, "none") ]
              /\ personTable' = created.table
              /\ nextPersonId' = nextPersonId + 1
  /\ UNCHANGED << table, nextId, last, persons, filteredPersons, focusPersonId,
                  isFiltered, treeData, familyFilter, filterSettings,
                  filteredResults >>

\* PUT /api/persons/[id]
PersonPUT(p, id, body) ==
  /\ PersonCanBegin(p)
  /\ LET c == Call("person_put", "PUT", NoBody, id, NoRow, 0, "none",
                   calls[p].made + 1)
         updated == personUpdate(personTable, id, body)
     IN  IF UpdatePersonSchemaParse(id, body) = "ZodError"
           THEN /\ calls' = [ calls EXCEPT ![p] = Return(c, 400, "ZodError") ]
                /\ UNCHANGED personVars
         ELSE IF updated.error # "none"
           THEN /\ calls' = [ calls EXCEPT ![p] = Return(c, 500, updated.error) ]
                /\ UNCHANGED personVars
         ELSE /\ calls' = [ calls EXCEPT ![p] = Return(c, 200, "none") ]
              /\ personTable' = updated.table
              /\ UNCHANGED nextPersonId
  /\ UNCHANGED << table, nextId, last, persons, filteredPersons, focusPersonId,
                  isFiltered, treeData, familyFilter, filterSettings,
                  filteredResults >>

\* DELETE /api/persons/[id]: await prisma.person.updateMany(...)
PersonDeleteUpdateMany(p, id) ==
  /\ PersonCanBegin(p)
  /\ calls' = [ calls EXCEPT ![p] =
                  Call("person_delete", "DELETE", NoBody, id, NoRow, 0, "none",
                       calls[p].made + 1) ]
  /\ personTable' = personUpdateMany(personTable, id)
  /\ UNCHANGED << table, nextId, last, persons, filteredPersons, focusPersonId,
                  isFiltered, treeData, familyFilter, filterSettings,
                  filteredResults, nextPersonId >>

\* DELETE /api/persons/[id]: await prisma.person.delete(...), and the response
PersonDeleteDelete(p) ==
  /\ calls[p].pc = "person_delete"
  /\ LET deleted == personDelete(personTable, calls[p].id)
     IN  IF deleted.error # "none"
           THEN /\ calls' = [ calls EXCEPT ![p] = Return(@, 500, deleted.error) ]
                /\ UNCHANGED personVars
         ELSE /\ calls' = [ calls EXCEPT ![p] = Return(@, 200, "none") ]
              /\ personTable' = deleted.table
              /\ UNCHANGED nextPersonId
  /\ UNCHANGED << table, nextId, last, persons, filteredPersons, focusPersonId,
                  isFiltered, treeData, familyFilter, filterSettings,
                  filteredResults >>

\* the persons stored before the first request: a father, a mother and their
\* child; or a couple and their child
SeededPersons ==
  { << Person(1, NoPersonId, NoPersonId, NoPersonId, NoYear),
       Person(2, 1, NoPersonId, NoPersonId, NoYear),
       Person(3, 1, 2, NoPersonId, NoYear) >>,
    << Person(1, NoPersonId, NoPersonId, 2, NoYear),
       Person(2, NoPersonId, NoPersonId, 1, NoYear),
       Person(3, 1, 2, NoPersonId, NoYear) >> }

\* the link values a client sends: absent, not a string, an id
LinkValues == { NoPersonId, NotAString } \cup PersonIds

\* the bodies the clients send: at most one link field is given
PersonBodies ==
  { PersonBody(NoPersonId, NoPersonId, NoPersonId) }
    \cup { PersonBody(v, NoPersonId, NoPersonId) : v \in LinkValues }
    \cup { PersonBody(NoPersonId, v, NoPersonId) : v \in LinkValues }
    \cup { PersonBody(NoPersonId, NoPersonId, v) : v \in LinkValues }

InitPersons ==
  /\ table = {}
  /\ nextId = 1
  /\ last = NoRequest
  /\ calls = [ p \in Procs |-> IdleCall ]
  /\ persons = << >>
  /\ \E seeded \in SeededPersons : Stored(seeded)
  /\ NoFilter(<< >>)
  /\ filteredPersons = << >>
  /\ focusPersonId = 0
  /\ isFiltered = FALSE
  /\ treeData = [ roots |-> << >>,
                  stats |-> [ totalNodes |-> 0, maxDepth |-> 0, generations |-> 0 ] ]
  /\ familyFilter = [ focusPersonId |-> 0, persons |-> << >> ]

NextPersons ==
  \E p \in Procs :
    \/ \E body \in PersonBodies : PersonPOST(p, body)
    \/ \E id \in PersonIds, body \in PersonBodies : PersonPUT(p, id, body)
    \/ \E id \in PersonIds : PersonDeleteUpdateMany(p, id)
    \/ PersonDeleteDelete(p)

SpecPersons == InitPersons /\ [][NextPersons]_vars

(***************************************************************************)
(* Persons specification for the years: one person is stored, with or      *)
(* without a birthYear and a deathYear that passed the schema; the clients *)
(* create persons and update their years, a request giving both years,     *)
(* one of them or none                                                     *)
(***************************************************************************)
\* the years a client sends, in their order
Years == 1 .. 2

YearsBodies ==
  { YearsBody(b, d) : b \in { NoYear } \cup Years, d \in { NoYear } \cup Years }

\* the person stored before the first request, created by an accepted POST
SeededYears ==
  { << [ Person(1, NoPersonId, NoPersonId, NoPersonId, body.birthYear)
           EXCEPT !.deathYear = body.deathYear ] >> :
      body \in { y \in YearsBodies : PersonSchemaParse(y) = "ok" } }

InitYears ==
  /\ table = {}
  /\ nextId = 1
  /\ last = NoRequest
  /\ calls = [ p \in Procs |-> IdleCall ]
  /\ persons = << >>
  /\ \E seeded \in SeededYears : Stored(seeded)
  /\ NoFilter(<< >>)
  /\ filteredPersons = << >>
  /\ focusPersonId = 0
  /\ isFiltered = FALSE
  /\ treeData = [ roots |-> << >>,
                  stats |-> [ totalNodes |-> 0, maxDepth |-> 0, generations |-> 0 ] ]
  /\ familyFilter = [ focusPersonId |-> 0, persons |-> << >> ]

NextYears ==
  \E p \in Procs :
    \/ \E body \in YearsBodies : PersonPOST(p, body)
    \/ \E id \in PersonIds, body \in YearsBodies : PersonPUT(p, id, body)

SpecYears == InitYears /\ [][NextYears]_vars

(***************************************************************************)
(* Claims                                                                  *)
(***************************************************************************)
Has(tbl, from, to, type) == Matching(tbl, from, to, type) # {}

\* the rows of tbl that are the reverse record of row r
ReverseRowsOf(tbl, r) ==
  Matching(tbl, r.personToId, r.personFromId, getReverseRelationshipType(r.type))

\* C1: after a successful createRelationship(type, A, B), A # B, the table
\* holds (A, B, type) and (B, A, R), R the type itself for a mutual type and
\* its reverseType otherwise, for each of the 22 types.
C1_ReversePairing ==
  (last.op = "POST" /\ last.status = 201)
    => /\ last.body.type \in RelationshipType
       /\ last.body.personFromId # last.body.personToId
       /\ Has(table, last.body.personFromId, last.body.personToId, last.body.type)
       /\ Has(table, last.body.personToId, last.body.personFromId,
              getReverseRelationshipType(last.body.type))

C1_Witness ==
  /\ last.op = "POST" /\ last.status = 201
  /\ last.body = [ type |-> "GRANDPARENT", personFromId |-> "A", personToId |-> "B" ]
  /\ Has(table, "B", "A", "GRANDCHILD")
  /\ Has(table, "A", "B", "SIBLING") /\ Has(table, "B", "A", "SIBLING")

\* C2: from an empty table, after any sequence of createRelationship and
\* deleteRelationship run one at a time, every stored record (a, b, t) has
\* its reverse record (b, a, reverse(t)) stored too.
C2_EveryRowPaired ==
  \A r \in table : ReverseRowsOf(table, r) # {}

C2_Witness ==
  /\ last.op = "DELETE" /\ last.status = 200
  /\ Cardinality(table) = 2
  /\ nextId = 5

\* C3: deleteRelationship(id) of a stored record (A, B, t) succeeds and
\* removes exactly that record and the record (B, A, reverse(t)) if present;
\* every other record stays.
C3_DeleteRemovesPairOnly ==
  [][ (last'.op = "DELETE" /\ findUnique(table, last'.id) # NoRow)
        => LET r == findUnique(table, last'.id)
           IN  /\ last'.status = 200
               /\ table' = table \ ({ r } \cup ReverseRowsOf(table, r)) ]_vars

\* row 1 was stored without its reverse and is deleted while two other rows stay
C3_Witness ==
  /\ last.op = "DELETE" /\ last.id = 1 /\ last.status = 200
  /\ Cardinality(table) = 2
  /\ nextId = 5

\* C4: createRelationship with a triple that is already stored fails with
\* Conflict (409) and leaves the table unchanged.
C4_DuplicateIsConflict ==
  [][ (last'.op = "POST"
       /\ Has(table, last'.body.personFromId, last'.body.personToId, last'.body.type))
        => (last'.status = 409 /\ table' = table) ]_vars

C4_Witness ==
  /\ last.op = "POST" /\ last.status = 409
  /\ last.body.type = "GRANDPARENT"
  /\ Cardinality(table) = 2

\* C5: createRelationship(type, x, x) fails with InvalidInput (400) for
\* every relationship type and every person x, and writes nothing.
C5_SelfIsInvalidInput ==
  [][ (last'.op = "POST" /\ last'.body.personFromId = last'.body.personToId)
        => (last'.status = 400 /\ table' = table /\ nextId' = nextId) ]_vars

C5_Witness ==
  /\ last.op = "POST" /\ last.status = 400
  /\ last.body.type = "SIBLING"
  /\ last.body.personFromId = "A" /\ last.body.personToId = "A"
  /\ table # {}

\* C6: deleteRelationship(id) with an id that is not stored fails with
\* NotFound (404) and leaves the table unchanged.
C6_UnknownIdIsNotFound ==
  [][ (last'.op = "DELETE" /\ last'.id # NoId
       /\ \A r \in table : r.id # last'.id)
        => (last'.status = 404 /\ table' = table) ]_vars

\* an id that was stored once and has been deleted is deleted again
C6_Witness ==
  /\ last.op = "DELETE" /\ last.status = 404
  /\ last.id = 1
  /\ nextId = 5 /\ Cardinality(table) = 2

\* C7: a createRelationship call that passed its existence check and whose
\* insert the store's unique index then rejected (P2002) reports Conflict
\* (409), as it does when the existence check finds the duplicate.
C7_UniqueViolationIsConflict ==
  \A p \in DOMAIN calls :
    (calls[p].pc = "done" /\ calls[p].op = "POST" /\ calls[p].error = "P2002")
      => calls[p].status = 409

\* C8: under every interleaving of the store calls of concurrent creates and
\* deletes, the table holds at most one record per (personFromId,
\* personToId, type) and no record from a person to itself.
C8_UniqueTriplesNoSelf ==
  /\ \A r1, r2 \in table :
       ( /\ r1.personFromId = r2.personFromId
         /\ r1.personToId = r2.personToId
         /\ r1.type = r2.type ) => r1 = r2
  /\ \A r \in table : r.personFromId # r.personToId

\* one client's insert was rejected by the unique index while the other's
\* row of that triple is stored
C8_Witness ==
  \E p \in DOMAIN calls :
    /\ calls[p].pc = "done" /\ calls[p].op = "POST" /\ calls[p].error = "P2002"
    /\ Has(table, calls[p].body.personFromId, calls[p].body.personToId,
           calls[p].body.type)

\* the clients p and q each made one call, the two creates of a mutual type
\* between A and B in opposite directions, and both calls have completed
OppositeCreatesDone(p, q) ==
  /\ p # q
  /\ calls[p].made = 1 /\ calls[q].made = 1
  /\ calls[p].pc = "done" /\ calls[q].pc = "done"
  /\ calls[p].op = "POST" /\ calls[q].op = "POST"
  /\ calls[p].body.type \in DOMAIN MUTUAL_RELATIONSHIPS
  /\ calls[q].body.type = calls[p].body.type
  /\ calls[p].body.personFromId # calls[p].body.personToId
  /\ calls[q].body.personFromId = calls[p].body.personToId
  /\ calls[q].body.personToId = calls[p].body.personFromId

\* C25: when createRelationship(T, A, B) and createRelationship(T, B, A) for
\* a mutual type T run concurrently from a table holding neither record,
\* then in every interleaving of their store calls, once both have completed
\* the table holds exactly one record (A, B, T) and exactly one (B, A, T)
C25_OppositeMutualCreates ==
  \A p, q \in DOMAIN calls :
    OppositeCreatesDone(p, q)
      => LET b == calls[p].body
         IN  /\ Cardinality(Matching(table, b.personFromId, b.personToId, b.type)) = 1
             /\ Cardinality(Matching(table, b.personToId, b.personFromId, b.type)) = 1

\* the two creates interleaved: each passed its existence check before the
\* other wrote, and one of them was then rejected by the unique index
C25_Witness ==
  \E p, q \in DOMAIN calls :
    /\ OppositeCreatesDone(p, q)
    /\ calls[p].status = 201
    /\ calls[q].error = "P2002"
    /\ Cardinality(table) = 2

\* client p made one call, a create of (A, B, T), client q made one call, a
\* delete that found the record (A, B, T), and both calls have completed
CreateAndDeleteDone(p, q) ==
  /\ p # q
  /\ calls[p].made = 1 /\ calls[q].made = 1
  /\ calls[p].pc = "done" /\ calls[q].pc = "done"
  /\ calls[p].op = "POST" /\ calls[q].op = "DELETE"
  /\ calls[q].relationship # NoRow
  /\ calls[q].relationship.personFromId = calls[p].body.personFromId
  /\ calls[q].relationship.personToId = calls[p].body.personToId
  /\ calls[q].relationship.type = calls[p].body.type
  /\ reverseType(calls[p].body.type) # Null

\* C26: when a createRelationship(T, A, B) and a deleteRelationship of the
\* record (A, B, T) are interleaved at the granularity of the store calls,
\* then once both have completed the table holds either both (A, B, T) and
\* (B, A, reverse(T)) or neither of them
C26_CreateDeleteKeepsPairs ==
  \A p, q \in DOMAIN calls :
    CreateAndDeleteDone(p, q)
      => LET b == calls[p].body
         IN  Has(table, b.personFromId, b.personToId, b.type)
               <=> Has(table, b.personToId, b.personFromId, reverseType(b.type))

\* the create call is past its primary insert: it has added a record
AddedPrimary(c) ==
  c.op = "POST" /\ c.pc \in { "post_findReverse", "post_createReverse" }

\* C27: a createRelationship call that reports an error (400, 409 or 500) has
\* added no record to the table, also when other createRelationship calls
\* run concurrently: no call that has added its primary record goes on to
\* report an error
C27_ErrorAddsNothing ==
  [][\A p \in DOMAIN calls :
       (AddedPrimary(calls[p]) /\ calls'[p].pc = "done")
         => calls'[p].status = 201]_vars

\* the relationship types of the last request and of the stored records
TypesSeen ==
  ({ last.body.type } \cap RelationshipType) \cup { r.type : r \in table }

\* C29: the reverse-type mapping is total and an involution over the 22
\* relationship types: every type a request or a record carries has a
\* reverse, the reverse of the reverse is the type, the reverse is the type
\* itself exactly for the mutual types, and the route's tables give the
\* reverse that getReverseRelationshipType gives
C29_ReverseInvolution ==
  /\ Cardinality(RelationshipType) = 22
  /\ DOMAIN RELATIONSHIP_DEFINITIONS = RelationshipType
  /\ \A t \in TypesSeen :
       /\ reverseType(t) \in RelationshipType
       /\ reverseType(reverseType(t)) = t
       /\ (reverseType(t) = t) <=> isMutualRelationship(t)
       /\ isMutualRelationship(t) <=> t \in DOMAIN MUTUAL_RELATIONSHIPS
       /\ reverseType(t) = getReverseRelationshipType(t)

\* a WARD record was created, its GUARDIAN reverse with it, next to the two
\* records of a mutual type
C29_Witness ==
  /\ last.op = "POST" /\ last.status = 201
  /\ last.body.type = "WARD"
  /\ Has(table, last.body.personToId, last.body.personFromId, "GUARDIAN")
  /\ \E r \in table : r.type = "FIRST_COUSIN"

(***************************************************************************)
(* Claims about the layout                                                 *)
(***************************************************************************)
RECURSIVE CountAll(_)
\* the number of tree node instances in a list of subtrees, spouse nodes aside
CountAll(nodes) ==
  IF nodes = << >> THEN 0
  ELSE 1 + CountAll(Head(nodes).children) + CountAll(Tail(nodes))

RECURSIVE MaxLevelAll(_)
\* the largest level of any node in a list of subtrees (0 for none)
MaxLevelAll(nodes) ==
  IF nodes = << >> THEN 0
  ELSE Max(Max(Head(nodes).level, MaxLevelAll(Head(nodes).children)),
           MaxLevelAll(Tail(nodes)))

IdsOf(seq) == [ i \in 1 .. Len(seq) |-> seq[i].id ]

Parentless(data) ==
  SelectSeq(data, LAMBDA p : p.fatherId = NoPersonId /\ p.motherId = NoPersonId)

AllFamiliesMode == ~(focusPersonId # NoPersonId /\ isFiltered)

\* {A (no parents), B (father = A), C (father = A)} as persons 1, 2, 3
ScenarioABC ==
  << Person(1, 0, 0, 0, 0), Person(2, 1, 0, 0, 0), Person(3, 1, 0, 0, 0) >>

\* C9: in ALL_FAMILIES mode on a working set with a parentless person, the
\* roots are exactly the parentless persons in working-set order, families
\* is their number, totalNodes the number of node instances (spouse nodes
\* aside), maxDepth the largest level, generations = maxDepth + 1; the
\* A, B, C scenario gives one root A with children B, C and 1, 2, 1.
C9_AllFamiliesRootsAndStats ==
  (AllFamiliesMode /\ Len(Parentless(dataToUse)) > 0)
    => /\ IdsOf(treeData.roots) = IdsOf(Parentless(dataToUse))
       /\ treeData.stats.families = Len(treeData.roots)
       /\ treeData.stats.totalNodes = CountAll(treeData.roots)
       /\ treeData.stats.maxDepth = MaxLevelAll(treeData.roots)
       /\ treeData.stats.generations = treeData.stats.maxDepth + 1
       /\ (dataToUse = ScenarioABC)
            => /\ Len(treeData.roots) = 1
               /\ treeData.roots[1].id = 1
               /\ IdsOf(treeData.roots[1].children) = << 2, 3 >>
               /\ treeData.stats.maxDepth = 1
               /\ treeData.stats.generations = 2
               /\ treeData.stats.families = 1

C9_Witness ==
  /\ AllFamiliesMode
  /\ dataToUse = ScenarioABC
  /\ Len(treeData.roots) = 1
  /\ treeData.stats.totalNodes = 3

RECURSIVE WellPlaced(_)
\* the node and all its descendants are where C10 says
WellPlaced(node) ==
  LET n == Len(node.children)
  IN  /\ node.y = node.level * 120
      /\ \A i \in 1 .. Len(node.spouse) :
           /\ node.spouse[i].level = node.level
           /\ node.spouse[i].y = node.y
           /\ node.spouse[i].x = node.x + 140
      /\ \A k \in 1 .. n :
           /\ node.children[k].level = node.level + 1
           /\ node.children[k].x = node.x - (n * 90) + 90 + ((k - 1) * 180)
           /\ WellPlaced(node.children[k])

\* C10: in every built layout each root has level 0, a child is one level
\* below its parent, y = level * 120, a spouse node has its partner's level
\* and y and x = partner.x + 140, and the k-th of n children of a node at X
\* is at X - n*90 + 90 + k*180.
C10_LevelsAndCoordinates ==
  \A r \in 1 .. Len(treeData.roots) :
    /\ treeData.roots[r].level = 0
    /\ WellPlaced(treeData.roots[r])

\* a focused layout whose root has a spouse and two children, one of them
\* with a child
C10_Witness ==
  /\ ~AllFamiliesMode
  /\ Len(treeData.roots) = 1
  /\ Len(treeData.roots[1].spouse) = 1
  /\ Len(treeData.roots[1].children) = 2
  /\ \E k \in 1 .. 2 : Len(treeData.roots[1].children[k].children) = 1

RECURSIVE WidthOfChildren(_)
\* the sum of the subtreeWidth of the nodes of a list
WidthOfChildren(nodes) ==
  IF nodes = << >> THEN 0
  ELSE Head(nodes).subtreeWidth + WidthOfChildren(Tail(nodes))

\* what C11 says of one node
WidthAsClaimed(node) ==
  LET n == Len(node.children)
  IN  IF n = 0 THEN node.subtreeWidth = 180
      ELSE /\ node.subtreeWidth = Max(n * 180, WidthOfChildren(node.children))
           /\ node.subtreeWidth >= WidthOfChildren(node.children)

RECURSIVE TreeNodesWidthOK(_)
\* C11 holds of the node and of every node below it, spouse nodes aside
TreeNodesWidthOK(node) ==
  /\ WidthAsClaimed(node)
  /\ \A i \in 1 .. Len(node.spouse) :
       node.spouse[i].subtreeWidth = 0 /\ node.spouse[i].children = << >>
  /\ \A k \in 1 .. Len(node.children) : TreeNodesWidthOK(node.children[k])

RECURSIVE AllNodesWidthOK(_)
\* C11 holds of the node, of its spouse node and of every node below it
AllNodesWidthOK(node) ==
  /\ WidthAsClaimed(node)
  /\ \A i \in 1 .. Len(node.spouse) : WidthAsClaimed(node.spouse[i])
  /\ \A k \in 1 .. Len(node.children) : AllNodesWidthOK(node.children[k])

\* C11 (as amended): every node of a built layout other than a spouse node
\* has subtreeWidth 180 when it has no children and max(n * 180, sum of its
\* children's subtreeWidth) when it has n >= 1 children; a spouse node has
\* no children and subtreeWidth 0.
C11_SubtreeWidth ==
  \A r \in 1 .. Len(treeData.roots) : TreeNodesWidthOK(treeData.roots[r])

\* C11 (as stated): every node of a built layout, spouse nodes included, has
\* subtreeWidth 180 when it has no children and max(n * 180, sum of its
\* children's subtreeWidth) otherwise.
C11_EveryNodeSubtreeWidth ==
  \A r \in 1 .. Len(treeData.roots) : AllNodesWidthOK(treeData.roots[r])

\* a root with a spouse and one child, whose two children make it wider than
\* the root's own 180
C11_Witness ==
  /\ Len(treeData.roots) >= 1
  /\ Len(treeData.roots[1].spouse) = 1
  /\ Len(treeData.roots[1].children) = 1
  /\ Len(treeData.roots[1].children[1].children) = 2
  /\ treeData.roots[1].subtreeWidth = 360

\* C12: building the layout terminates with a layout for every working set
\* in both modes, cyclic parent references included, and a non-empty working
\* set in which nobody is parentless gets a single root in ALL_FAMILIES
\* mode.
C12_BuildTerminates ==
  /\ treeData # StackOverflow
  /\ (AllFamiliesMode /\ Len(dataToUse) > 0 /\ Len(Parentless(dataToUse)) = 0)
       => Len(treeData.roots) = 1

InSet(data, id) == \E i \in 1 .. Len(data) : data[i].id = id

ById(data, id) == data[CHOOSE i \in 1 .. Len(data) : data[i].id = id]

\* the parent C13 moves to from a person with a parent in the set
ParentToFollow(data, person) ==
  LET hasFather == InSet(data, person.fatherId)
      hasMother == InSet(data, person.motherId)
      fy == ById(data, person.fatherId).birthYear
      my == ById(data, person.motherId).birthYear
  IN  IF hasFather /\ ~hasMother THEN person.fatherId
      ELSE IF hasMother /\ ~hasFather THEN person.motherId
      ELSE IF fy # NoYear /\ my # NoYear
        THEN (IF my < fy THEN person.motherId ELSE person.fatherId)
      ELSE IF my # NoYear THEN person.motherId
      ELSE person.fatherId

RECURSIVE TopAncestorAsClaimed(_, _)
\* repeatedly move to the parent to follow; stop where no parent is in the set
TopAncestorAsClaimed(data, id) ==
  LET person == ById(data, id)
  IN  IF ~InSet(data, person.fatherId) /\ ~InSet(data, person.motherId) THEN id
      ELSE TopAncestorAsClaimed(data, ParentToFollow(data, person))

RECURSIVE HasNode(_, _)
\* some node of the list of subtrees is the person id
HasNode(nodes, id) ==
  \E k \in 1 .. Len(nodes) : nodes[k].id = id \/ HasNode(nodes[k].children, id)

FocusedOnMember ==
  /\ focusPersonId # NoPersonId
  /\ isFiltered
  /\ InSet(dataToUse, focusPersonId)

\* C13: in FOCUSED mode with the focus person in the working set (parent
\* references acyclic) the layout has exactly one root and families = 1; the
\* root is reached from the focus person by moving to the only parent
\* present in the set, or of two present parents to the one born earlier
\* (the father on equal years), else the one with a birthYear, else the
\* father; and the focus person is a node of the tree.
C13_FocusedSingleRoot ==
  FocusedOnMember
    => /\ Len(treeData.roots) = 1
       /\ treeData.stats.families = 1
       /\ treeData.roots[1].id = TopAncestorAsClaimed(dataToUse, focusPersonId)
       /\ HasNode(treeData.roots, focusPersonId)

\* the focus person has both parents in the set and the mother, born
\* earlier, is the root
C13_Witness ==
  /\ FocusedOnMember
  /\ LET focus == ById(dataToUse, focusPersonId)
     IN  /\ InSet(dataToUse, focus.fatherId)
         /\ InSet(dataToUse, focus.motherId)
         /\ focus.fatherId # focus.motherId
         /\ ById(dataToUse, focus.motherId).birthYear
              < ById(dataToUse, focus.fatherId).birthYear
         /\ ById(dataToUse, focus.motherId).birthYear # NoYear
         /\ Len(treeData.roots) = 1
         /\ treeData.roots[1].id = focus.motherId

\* no fatherId or motherId of the person names a person of the working set
NoParentInSet(data, person) ==
  ~InSet(data, person.fatherId) /\ ~InSet(data, person.motherId)

FallbackAsClaimed(data) ==
  LET dated == { i \in 1 .. Len(data) : data[i].birthYear # NoYear }
  IN  IF dated = {} THEN data[1]
      ELSE data[CHOOSE i \in dated :
                  \A j \in dated :
                    \/ data[i].birthYear < data[j].birthYear
                    \/ data[i].birthYear = data[j].birthYear /\ i <= j]

NobodyParentless ==
  /\ AllFamiliesMode
  /\ Len(dataToUse) > 0
  /\ Len(Parentless(dataToUse)) = 0

RECURSIVE InstancesOf(_, _)
\* the tree nodes (spouse nodes aside) that carry the person id
InstancesOf(nodes, id) ==
  IF nodes = << >> THEN 0
  ELSE (IF Head(nodes).id = id THEN 1 ELSE 0)
         + InstancesOf(Head(nodes).children, id)
         + InstancesOf(Tail(nodes), id)

RECURSIVE SumPaths(_, _, _, _)
RECURSIVE PathsTo(_, _, _)
\* the parent paths that lead from a root of the list down to the person:
\* one if the person is such a root, plus those to each parent in the set
PathsTo(data, roots, id) ==
  LET person == ById(data, id)
      parents == { q \in { person.fatherId, person.motherId } : InSet(data, q) }
  IN  Cardinality({ r \in 1 .. Len(roots) : roots[r].id = id })
        + SumPaths(data, roots, parents, 0)

SumPaths(data, roots, parents, sum) ==
  IF parents = {} THEN sum
  ELSE LET q == CHOOSE x \in parents : TRUE
       IN  SumPaths(data, roots, parents \ { q }, sum + PathsTo(data, roots, q))

RECURSIVE SumInstances(_, _, _)
SumInstances(nodes, data, k) ==
  IF k > Len(data) THEN 0
  ELSE InstancesOf(nodes, data[k].id) + SumInstances(nodes, data, k + 1)

\* {A (no parents), B (no parents), C (father = A, mother = B)} as 1, 2, 3
ScenarioTwoParents ==
  << Person(1, 0, 0, 0, 0), Person(2, 0, 0, 0, 0), Person(3, 1, 2, 0, 0) >>

\* C23: the layout does not deduplicate: every person of the working set has
\* as many tree nodes as there are distinct parent paths from the roots to
\* the person, and totalNodes counts them all; in ALL_FAMILIES mode a child
\* C of the parentless A and B is a child of root A and a child of root B,
\* and totalNodes is 4
C23_NodePerPath ==
  /\ \A i \in 1 .. Len(dataToUse) :
       InstancesOf(treeData.roots, dataToUse[i].id)
         = PathsTo(dataToUse, treeData.roots, dataToUse[i].id)
  /\ treeData.stats.totalNodes = SumInstances(treeData.roots, dataToUse, 1)
  /\ (AllFamiliesMode /\ dataToUse = ScenarioTwoParents)
       => /\ IdsOf(treeData.roots) = << 1, 2 >>
          /\ IdsOf(treeData.roots[1].children) = << 3 >>
          /\ IdsOf(treeData.roots[2].children) = << 3 >>
          /\ treeData.stats.totalNodes = 4

\* the two-parent scenario has been laid out: person C has two nodes
C23_Witness ==
  /\ AllFamiliesMode
  /\ dataToUse = ScenarioTwoParents
  /\ InstancesOf(treeData.roots, 3) = 2
  /\ treeData.stats.totalNodes = 4

\* the parents of the person that are in the working set
ParentsInSet(data, person) ==
  { q \in { person.fatherId, person.motherId } : InSet(data, q) }

RECURSIVE ClimbsBack(_, _, _, _)
\* following the only parent in the set from id leads to the person target
\* within steps moves
ClimbsBack(data, id, target, steps) ==
  LET parents == ParentsInSet(data, ById(data, id))
  IN  /\ steps > 0
      /\ parents # {}
      /\ LET q == CHOOSE x \in parents : TRUE
         IN  q = target \/ ClimbsBack(data, q, target, steps - 1)

\* every person has at most one parent in the set and no person is its own
\* ancestor
SingleParentForest(data) ==
  /\ \A i \in 1 .. Len(data) : Cardinality(ParentsInSet(data, data[i])) <= 1
  /\ \A i \in 1 .. Len(data) : ~ClimbsBack(data, data[i].id, data[i].id, Len(data))

RECURSIVE PositionsOf(_)
\* the (x, y) of every node of the subtrees, one entry per node
PositionsOf(nodes) ==
  IF nodes = << >> THEN << >>
  ELSE << << Head(nodes).x, Head(nodes).y >> >>
         \o PositionsOf(Head(nodes).children)
         \o PositionsOf(Tail(nodes))

Distinct(seq) == \A i, j \in 1 .. Len(seq) : i # j => seq[i] # seq[j]

\* C24: in a layout built from a working set in which every person has at
\* most one parent in the set and parent references are acyclic, no two
\* distinct tree nodes (spouse nodes aside) under the same root have the
\* same (x, y)
C24_NoOverlap ==
  SingleParentForest(dataToUse)
    => \A r \in 1 .. Len(treeData.roots) :
         Distinct(PositionsOf(<< treeData.roots[r] >>))

(***************************************************************************)
(* Claims about the family filter                                          *)
(***************************************************************************)
PresentIds(all) == { all[i].id : i \in 1 .. Len(all) }

\* the entry the result holds for the person id
MemberOf(results, id) ==
  results.familyMembers[CHOOSE i \in 1 .. Len(results.familyMembers) :
                          results.familyMembers[i].person.id = id]

MemberIds(results) ==
  { results.familyMembers[i].person.id : i \in 1 .. Len(results.familyMembers) }

\* the persons of the list that are a father or mother of a person in ids
ParentsIn(all, ids) ==
  { q \in PresentIds(all) :
      \E i \in 1 .. Len(all) :
        all[i].id \in ids /\ (all[i].fatherId = q \/ all[i].motherId = q) }

RECURSIVE WithinUp(_, _, _)
\* ids and the persons at most n parent steps above them
WithinUp(all, ids, n) ==
  IF n = 0 THEN ids ELSE WithinUp(all, ids \cup ParentsIn(all, ids), n - 1)

LineageUpOnly(settings) ==
  /\ ~settings.includeSpouses
  /\ ~settings.includeSiblings
  /\ ~settings.includeExtendedFamily
  /\ settings.generationsDown = 0

C14_Holds(all, settings, results) ==
  (LineageUpOnly(settings) /\ settings.focusPersonId \in PresentIds(all))
    => LET focus == ById(all, settings.focusPersonId)
       IN  /\ MemberIds(results)
                = WithinUp(all, { focus.id }, settings.generationsUp)
           /\ { results.persons[i].id : i \in 1 .. Len(results.persons) }
                = MemberIds(results)
           /\ settings.generationsUp = 1
                => /\ MemberIds(results)
                        = { focus.id } \cup
                          ({ focus.fatherId, focus.motherId } \cap PresentIds(all))
                   /\ (focus.fatherId \in PresentIds(all) \ { focus.id })
                        => MemberOf(results, focus.fatherId).relation = "Father"
                   /\ (focus.motherId \in PresentIds(all) \ { focus.id, focus.fatherId })
                        => MemberOf(results, focus.motherId).relation = "Mother"

\* C14: with spouses, siblings and extended family off and generationsDown
\* = 0, the result of a render with generationsUp = n is exactly the focus
\* person plus the persons at most n fatherId/motherId steps above it through
\* persons of the list; for n = 1 that is the focus person, its father and
\* its mother (those in the list), labelled Father and Mother.
C14_AncestorsOnly ==
  [][renderFamilyFilter => C14_Holds(persons', filterSettings', filteredResults')]_vars

\* generationsUp = 1 kept the grandparent out and labelled both parents
C14_Witness ==
  /\ LineageUpOnly(filterSettings)
  /\ filterSettings.generationsUp = 1
  /\ filterSettings.focusPersonId \in PresentIds(persons)
  /\ LET focus == ById(persons, filterSettings.focusPersonId)
     IN  /\ Len(filteredResults.familyMembers) = 3
         /\ focus.fatherId \in PresentIds(persons)
         /\ focus.motherId \in PresentIds(persons)
         /\ MemberOf(filteredResults, focus.fatherId).relation = "Father"
         /\ MemberOf(filteredResults, focus.motherId).relation = "Mother"
         /\ ParentsIn(persons, { focus.fatherId, focus.motherId }) # {}

RECURSIVE Greats(_)
\* 'Great-' written k times
Greats(k) == IF k = 0 THEN "" ELSE "Great-" \o Greats(k - 1)

\* the label C15 gives a direct-line relative at depth d
LabelAtDepth(d, parent, grandparent) ==
  IF d = 1 THEN parent
  ELSE IF d = 2 THEN grandparent
  ELSE Greats(d - 2) \o grandparent

RECURSIVE StepsUp(_, _, _)
\* the persons exactly d parent steps above ids
StepsUp(all, ids, d) ==
  IF d = 0 THEN ids ELSE StepsUp(all, ParentsIn(all, ids), d - 1)

ChildrenIn(all, ids) ==
  { all[i].id : i \in { j \in 1 .. Len(all) :
                          all[j].fatherId \in ids \/ all[j].motherId \in ids } }

RECURSIVE StepsDown(_, _, _)
\* the persons exactly d child steps below ids
StepsDown(all, ids, d) ==
  IF d = 0 THEN ids ELSE StepsDown(all, ChildrenIn(all, ids), d - 1)

\* labels of the collateral relatives that carry a generation above 0
CollateralAbove == { "Step-mother", "Step-father", "Aunt/Uncle" }

\* labels of the collateral relatives that carry a generation below 0
CollateralBelow ==
  { "Niece/Nephew" } \cup
  { LabelAtDepth(d, "Child", "Grandchild") \o "'s Spouse" : d \in 1 .. (MaxGenerations + 1) }

C15_Holds(all, settings, results) ==
  \A i \in 2 .. Len(results.familyMembers) :
    LET m == results.familyMembers[i]
        d == IF m.generation > 0 THEN m.generation ELSE -m.generation
    IN  /\ (m.generation > 0 /\ m.relation \notin CollateralAbove)
             => /\ m.relation \in { LabelAtDepth(d, "Father", "Grandfather"),
                                    LabelAtDepth(d, "Mother", "Grandmother") }
                /\ m.person.id \in StepsUp(all, { settings.focusPersonId }, d)
        /\ (m.generation < 0 /\ m.relation \notin CollateralBelow)
             => /\ m.relation = LabelAtDepth(d, "Child", "Grandchild")
                /\ m.person.id \in StepsDown(all, { settings.focusPersonId }, d)
        /\ m.relation \in { LabelAtDepth(e, "Father", "Grandfather") : e \in 1 .. (MaxGenerations + 1) }
                          \cup { LabelAtDepth(e, "Mother", "Grandmother") : e \in 1 .. (MaxGenerations + 1) }
             => m.generation > 0
        /\ m.relation \in { LabelAtDepth(e, "Child", "Grandchild") : e \in 1 .. (MaxGenerations + 1) }
             => m.generation < 0

\* C15: an ancestor added d parent steps above the focus person is labelled
\* Father/Mother (d = 1), Grandfather/Grandmother (d = 2) or, from d = 3,
\* Grandfather/Grandmother after d - 2 times 'Great-', with generation +d; a
\* descendant added d steps below is labelled Child, Grandchild or
\* Grandchild after d - 2 times 'Great-', with generation -d.
C15_DepthLabels ==
  [][renderFamilyFilter => C15_Holds(persons', filterSettings', filteredResults')]_vars

\* a great-grandfather three steps above the focus person
C15_Witness ==
  \E i \in 1 .. Len(filteredResults.familyMembers) :
    /\ filteredResults.familyMembers[i].relation = "Great-Grandfather"
    /\ filteredResults.familyMembers[i].generation = 3
    /\ filteredResults.familyMembers[i].person.id
         \in StepsUp(persons, { filterSettings.focusPersonId }, 3)

RECURSIVE SumOver(_, _)
\* the sum of f over the set keys
SumOver(f, keys) ==
  IF keys = {} THEN 0
  ELSE LET k == CHOOSE k \in keys : TRUE
       IN  f[k] + SumOver(f, keys \ { k })

\* the first thing offered to the map for the person id
FirstOffer(results, id) ==
  results.attempts[CHOOSE i \in 1 .. Len(results.attempts) :
                     /\ results.attempts[i].person.id = id
                     /\ \A j \in 1 .. (i - 1) : results.attempts[j].person.id # id]

C16_Holds(all, settings, results) ==
  (settings.focusPersonId \in PresentIds(all))
    => /\ \A i \in 1 .. Len(results.attempts) :
            /\ results.attempts[i].person.id \in MemberIds(results)
            /\ MemberOf(results, results.attempts[i].person.id)
                 = FirstOffer(results, results.attempts[i].person.id)
       /\ \A i, j \in 1 .. Len(results.persons) :
            results.persons[i].id = results.persons[j].id => i = j
       /\ \E i \in 1 .. Len(results.persons) :
            results.persons[i].id = settings.focusPersonId
       /\ Len(results.familyMembers) = Len(results.persons)
       /\ results.stats.total = Len(results.persons)
       /\ results.stats.total
            = SumOver(results.stats.byRelation, DOMAIN results.stats.byRelation)
       /\ \A r \in DOMAIN results.stats.byRelation :
            results.stats.byRelation[r]
              = Cardinality({ i \in 1 .. Len(results.familyMembers) :
                                results.familyMembers[i].relation = r })

\* C16: within one computation of the result a person keeps the relation
\* label and generation first assigned to it; the returned persons hold each
\* id at most once and hold the focus person, and stats.total equals their
\* number and the sum of the per-label counts.
C16_FirstAssignmentWins ==
  [][renderFamilyFilter => C16_Holds(persons', filterSettings', filteredResults')]_vars

\* a person was offered to the map a second time under another label and
\* kept the first
C16_Witness ==
  /\ filterSettings.focusPersonId \in PresentIds(persons)
  /\ \E i, j \in 1 .. Len(filteredResults.attempts) :
       /\ i < j
       /\ filteredResults.attempts[i].person.id = filteredResults.attempts[j].person.id
       /\ filteredResults.attempts[i].relation # filteredResults.attempts[j].relation
       /\ filteredResults.attempts[i].person.id # filterSettings.focusPersonId
       /\ MemberOf(filteredResults, filteredResults.attempts[i].person.id).relation
            = filteredResults.attempts[i].relation

DirectLineLabels ==
  { LabelAtDepth(d, "Father", "Grandfather") : d \in 1 .. (MaxGenerations + 1) }
    \cup { LabelAtDepth(d, "Mother", "Grandmother") : d \in 1 .. (MaxGenerations + 1) }
    \cup { LabelAtDepth(d, "Child", "Grandchild") : d \in 1 .. (MaxGenerations + 1) }

RECURSIVE WithinDown(_, _, _)
\* ids and the persons at most n child steps below them
WithinDown(all, ids, n) ==
  IF n = 0 THEN ids ELSE WithinDown(all, ids \cup ChildrenIn(all, ids), n - 1)

\* the ancestors and descendants of the focus person the settings reach
DirectLine(all, settings) ==
  (WithinUp(all, { settings.focusPersonId }, settings.generationsUp)
     \cup WithinDown(all, { settings.focusPersonId }, settings.generationsDown))
    \ { settings.focusPersonId }

C17_Holds(all, settings, results) ==
  (settings.focusPersonId \in PresentIds(all))
    => \A i \in 1 .. Len(results.familyMembers) :
         results.familyMembers[i].person.id \in DirectLine(all, settings)
           => results.familyMembers[i].relation \in DirectLineLabels

\* C17: a person who is an ancestor or descendant of the focus person within
\* generationsUp / generationsDown, and is also reachable as a collateral
\* relative, is recorded under the direct-line label.
C17_DirectLineLabelWins ==
  [][renderFamilyFilter => C17_Holds(persons', filterSettings', filteredResults')]_vars

\* the focus person's mother is recorded as a step-mother: she is the spouse
\* of the father's father, who is reached first
C17_StepMotherForMother ==
  /\ filterSettings.focusPersonId \in PresentIds(persons)
  /\ LET focus == ById(persons, filterSettings.focusPersonId)
     IN  /\ focus.motherId \in MemberIds(filteredResults)
         /\ focus.motherId # focus.id
         /\ focus.spouseId = NoPersonId
         /\ MemberOf(filteredResults, focus.motherId).relation = "Step-mother"
         /\ \A i \in 1 .. Len(persons) : persons[i].fatherId < persons[i].id

\* C20: the resolver raises no error for any person list and any generation
\* counts: every person of the result is a person of the list (a fatherId,
\* motherId or spouseId naming an id the list lacks adds nobody), parent
\* links that form a cycle do not exhaust the call stack, and with no focus
\* or a focus the list lacks the whole list is returned unfiltered
C20_Holds(all, settings, results) ==
  /\ results # FilterOverflow
  /\ \A i \in 1 .. Len(results.persons) :
       \E j \in 1 .. Len(all) : results.persons[i] = all[j]
  /\ settings.focusPersonId \notin PresentIds(all) =>
       /\ results.persons = all
       /\ results.familyMembers = << >>
       /\ results.stats.total = Len(all)

C20_ResolverTotal ==
  [][renderFamilyFilter => C20_Holds(persons', filterSettings', filteredResults')]_vars

\* the father links form one cycle through the whole list, the ascent from
\* the focus person went the largest number of generations and came back
\* with the father and the grandfather
C20_Witness ==
  /\ \A i \in PersonIds : persons[i].fatherId = (i % MaxPersons) + 1
  /\ filterSettings.focusPersonId = 1
  /\ filterSettings.generationsUp = MaxGenerations
  /\ filteredResults # Unfiltered(persons)
  /\ filteredResults # FilterOverflow
  /\ { 1, 2, 3 } \subseteq MemberIds(filteredResults)
  /\ MemberOf(filteredResults, 3).relation = "Grandfather"

(***************************************************************************)
(* Claims about the persons routes                                         *)
(***************************************************************************)
OwnLink(r) == r.id \in { r.fatherId, r.motherId, r.spouseId }

\* C18: in every state reached through person create and update requests no
\* stored person is their own father, mother or spouse: an edit that would
\* set fatherId, motherId or spouseId of a person to the person's own id is
\* rejected before any write
C18_NoSelfReference ==
  \A r \in personTable : ~OwnLink(r)

\* the edit of a person's link to the person's own id was answered 200
C18_SelfEditAccepted ==
  \E p \in Procs :
    /\ calls[p].op = "PUT"
    /\ calls[p].status = 200
    /\ \E r \in personTable : r.id = calls[p].id /\ OwnLink(r)

RefersTo(r, id) == id \in { r.fatherId, r.motherId, r.spouseId }

\* C19: the first step of deleting person X leaves X stored (when it was) and
\* no stored person with fatherId, motherId or spouseId equal to X; when the
\* delete completes with success X is not stored and no remaining person has
\* fatherId, motherId or spouseId equal to X
C19_DeleteClearsReferences ==
  [][\A p \in Procs :
       /\ (\E id \in PersonIds : PersonDeleteUpdateMany(p, id)) =>
            /\ StoredIds(personTable') = StoredIds(personTable)
            /\ \A r \in personTable' : ~RefersTo(r, calls'[p].id)
       /\ (PersonDeleteDelete(p) /\ calls'[p].status = 200) =>
            /\ calls[p].id \in StoredIds(personTable)
            /\ calls[p].id \notin StoredIds(personTable')
            /\ \A r \in personTable' : ~RefersTo(r, calls[p].id)]_vars

\* a delete of a person who was a father and a mother's spouse has completed
C19_Witness ==
  \E p \in Procs :
    /\ calls[p].op = "DELETE"
    /\ calls[p].pc = "done"
    /\ calls[p].status = 200
    /\ calls[p].id = 1
    /\ StoredIds(personTable) = { 2, 3 }
    /\ \A r \in personTable : ~RefersTo(r, 1)

\* the reference after person id is deleted: cleared if it named id, else kept
Cleared(ref, id) == IF ref = id THEN NoPersonId ELSE ref

\* the row of tbl with the id of r
RowOf(tbl, r) == CHOOSE q \in tbl : q.id = r.id

\* on every stored person other than id, exactly the references to id have
\* been cleared between the tables before and after
OnlyReferencesCleared(before, after, id) ==
  \A r \in before :
    (r.id # id /\ r.id \in StoredIds(after))
      => /\ RowOf(after, r).fatherId = Cleared(r.fatherId, id)
         /\ RowOf(after, r).motherId = Cleared(r.motherId, id)
         /\ RowOf(after, r).spouseId = Cleared(r.spouseId, id)

\* C28: deleting person X changes, on the remaining persons, only the
\* reference fields that were equal to X: each store call of the delete
\* leaves a fatherId, motherId or spouseId that names another person as it
\* was
C28_DeleteKeepsOtherReferences ==
  [][\A p \in Procs :
       /\ (\E id \in PersonIds : PersonDeleteUpdateMany(p, id)) =>
            OnlyReferencesCleared(personTable, personTable', calls'[p].id)
       /\ PersonDeleteDelete(p) =>
            OnlyReferencesCleared(personTable, personTable', calls[p].id)]_vars

\* C30: in every state reached through accepted create-person and
\* update-person requests (an update may give only some fields), every stored
\* person with both a birthYear and a deathYear has deathYear >= birthYear
C30_DeathNotBeforeBirth ==
  \A r \in personTable :
    (r.birthYear # NoYear /\ r.deathYear # NoYear) => r.deathYear >= r.birthYear

====
